---- MODULE Spec2Model ----
(***************************************************************************)
(* Model of the ami-query image cache (package amicache, cache.go):        *)
(* the Run / Stop lifecycle, the refresh cycle (updateCache) with its      *)
(* account and region goroutines, the snapshot swap under c.mu, and the    *)
(* reader path Images / FilterImages.                                      *)
(*                                                                         *)
(* Go channel semantics used by the model:                                 *)
(*  - a select that finds several cases ready picks any one of them;       *)
(*  - a select that finds none ready parks the goroutine, and the first    *)
(*    event that makes a case ready wakes it with that case chosen;        *)
(*  - a send on the unbuffered quitCh completes only with a receiver.      *)
(***************************************************************************)
EXTENDS Integers, Sequences, FiniteSets, TLC

(***************************************************************************)
(* Bounds of the model.                                                    *)
(***************************************************************************)
MaxTicks == 1          \* TTL timer expiries over the whole behaviour
MaxReads == 1          \* Images / FilterImages calls by the reader

(***************************************************************************)
(* Configuration of the cache and the upstream inventory.                  *)
(***************************************************************************)
Runs == {"run1", "run2"}          \* the Run(ctx, warmed) calls
Stops == {"stop1", "stop2"}       \* the Stop() calls
ownerIDs == <<"o1", "o2">>        \* c.ownerIDs
OwnerSet == {ownerIDs[i] : i \in 1..Len(ownerIDs)}
regions == {"r1"}                 \* c.regions (the configured region set)
AllRegions == regions \cup {"rx"} \* region names a caller may pass
maxRequests == 15                 \* c.maxRequests default

Slots == {"first", "tick"}
Cycles == Runs \X Slots           \* updateCache calls: <<run, slot>>
Branches == OwnerSet \X regions   \* the (owner, region) goroutines of a cycle

\* What ec2:DescribeImages returns for (owner, region) when it succeeds.
DescribeImages(owner, region) ==
    IF region = "r1"
    THEN (IF owner = "o1" THEN <<"a">> ELSE <<"b">>)
    ELSE << >>

\* What ec2:DescribeImageAttribute(launchPermission) returns for an image.
DescribeImageAttribute(id) == IF id = "a" THEN <<"o2">> ELSE << >>

\* Image{Image, OwnerID, Region, launchPerms}
\* The tags ec2:DescribeImages reports for an image: (Key, Value) pairs.
ImageTags(id) ==
    IF id = "a" THEN <<[Key |-> "state", Value |-> "available"]>> ELSE << >>

\* Image{Image, OwnerID, Region, launchPerms}
Image(id, owner, region) ==
    [ImageId |-> id, Tags |-> ImageTags(id), OwnerID |-> owner,
     Region |-> region, launchPerms |-> DescribeImageAttribute(id)]

(***************************************************************************)
(* Go maps as functions whose DOMAIN is the key set.                       *)
(***************************************************************************)
EmptyMap == << >>
MapPut(m, k, v) == [x \in (DOMAIN m) \cup {k} |-> IF x = k THEN v ELSE m[x]]
MapGet(m, k, dflt) == IF k \in DOMAIN m THEN m[k] ELSE dflt

RECURSIVE PutAll(_, _)
PutAll(m, images) ==
    IF images = << >> THEN m
    ELSE PutAll(MapPut(m, Head(images).ImageId, Head(images)), Tail(images))

(***************************************************************************)
(* Pure helpers of cache.go.                                               *)
(***************************************************************************)
\* Variant: the size is not lowered to max.
poolSizeNoCap(max, queue) ==
    LET size == (queue * 5) \div 100
    IN  IF size < 1 THEN 1 ELSE size

\* poolSize(max, queue, 0.05): int(float64(queue) * 0.05), then clamped.
poolSize(max, queue) ==
    LET size == (queue * 5) \div 100
    IN  IF size < 1 THEN 1 ELSE IF size > max THEN max ELSE size

\* The elements of s at the positions in P, in the order of s.
RECURSIVE Pick(_, _, _)
Pick(s, P, i) ==
    IF i > Len(s) THEN << >>
    ELSE (IF i \in P THEN <<s[i]>> ELSE << >>) \o Pick(s, P, i + 1)

\* All orderings of the sequence s.
Orderings(s) ==
    LET n == Len(s)
        Perms == {f \in [1..n -> 1..n] : \A i, j \in 1..n : f[i] = f[j] => i = j}
    IN  {[i \in 1..n |-> s[f[i]]] : f \in Perms}

\* Variant: a failed DescribeImages still hands back the images of the pair.
ListFailureKeeps(owner, region) ==
    LET listed == DescribeImages(owner, region)
    IN  [images  |-> [i \in 1..Len(listed) |-> Image(listed[i], owner, region)],
         index   |-> listed,
         listErr |-> TRUE,
         attrErr |-> {}]

\* Lines 387-391: DescribeImages failed, return []Image{}, []string{}.
ListFailure(owner, region) ==
    [images |-> << >>, index |-> << >>, listErr |-> TRUE, attrErr |-> {}]

\* getImagesFromOwner(svc, logger, owner, region, tagFilter, maxReq): the
\* (images, index) pairs it can return.  A failed DescribeImages gives the
\* empty pair.  Otherwise every listed image is handed to a worker; a worker
\* whose DescribeImageAttribute call fails skips the image (continue), a
\* worker whose call succeeds appends the id and the record under mu.  One
\* worker appends in listing order, several workers in any order.
\* listErr tells whether DescribeImages failed, attrErr which images had a
\* failed DescribeImageAttribute call.
getImagesFromOwner(owner, region) ==
    LET listed == DescribeImages(owner, region)
        all    == {listed[i] : i \in 1..Len(listed)}
        kept   == {Pick(listed, P, 1) : P \in SUBSET (1..Len(listed))}
        orders == IF poolSize(maxRequests, Len(listed)) = 1
                  THEN kept
                  ELSE UNION {Orderings(k) : k \in kept}
    IN  {[images  |-> [i \in 1..Len(ix) |-> Image(ix[i], owner, region)],
          index   |-> ix,
          listErr |-> FALSE,
          attrErr |-> all \ {ix[i] : i \in 1..Len(ix)}] : ix \in orders}
        \cup {ListFailure(owner, region)}

(***************************************************************************)
(* State.                                                                  *)
(***************************************************************************)
VARIABLES
    cache,        \* c.cache: image id -> Image (the served record map)
    regionIndex,  \* c.regionIndex: region -> sequence of image ids
    cmu,          \* c.mu: Free, or the cycle that holds the write lock
    running,      \* c.running
    runPc,        \* position of each Run call
    runResult,    \* error returned by each Run call
    warmedArg,    \* whether the Run call was given a non-nil warmed channel
    warmed,       \* number of close(warmed) executed for the Run call
    isWarmed,     \* number of close(isWarmed) executed for the Run call
    ctxDone,      \* whether the Run call's context has been cancelled
    ticks,        \* TTL timer expiries so far
    stopPc,       \* position of each Stop call
    quit,         \* whether the Stop call's quit channel has been closed
    cyPc,         \* position of each updateCache call
    cyOutcome,    \* how the updateCache call's select ended
    newCache,     \* updateCache local: id -> Image
    newIndex,     \* updateCache local: region -> ids
    wg,           \* updateCache local: WaitGroup counter
    doneCh,       \* updateCache local: whether doneCh has been closed
    ownerPc,      \* position of each account goroutine of a cycle
    regionPc,     \* position of each region goroutine of a cycle
    regionOut,    \* index returned by getImagesFromOwner in each region goroutine
    regionErr,    \* the upstream failures met by each region goroutine
    rdPc,         \* position of the reader in Images / FilterImages
    reads,        \* reader calls started so far
    rdCall,       \* the reader's call: operation, region, filter
    rdIds,        \* ids returned by idsFromRegion
    rdImages,     \* images collected by Images so far
    rdResult,     \* what the reader's call returned
    rdViews,      \* results an Images call on one whole snapshot would give
    cancelledMid, \* cycles whose context was cancelled with branches unfinished
    cyBefore,     \* the served snapshot when the updateCache call started
    quitTaker,    \* the Run call that received each Stop call's request
    rdDuring,     \* cycles at work upstream during the whole reader call so far
    pureCall,     \* a call of a helper of cache.go: arguments and result
    poolMax,      \* maxReq of the getImagesFromOwner calls followed worker by worker
    pool,         \* those calls, one per region: position and counters
    server        \* main: the http server actor and the interrupts of the group

vars == <<cache, regionIndex, cmu, running, runPc, runResult, warmedArg, warmed,
          isWarmed, ctxDone, ticks, stopPc, quit, cyPc, cyOutcome, newCache,
          newIndex, wg, doneCh, ownerPc, regionPc, regionOut, regionErr,
          rdPc, reads,
          rdCall, rdIds, rdImages, rdResult, rdViews, cancelledMid, cyBefore,
          quitTaker, rdDuring, pureCall, poolMax, pool, server>>

cacheVars  == <<cache, regionIndex, cmu>>
runVars    == <<running, runPc, runResult, warmedArg, warmed, isWarmed>>
stopVars   == <<stopPc, quit, quitTaker>>
cycleVars  == <<cyPc, cyOutcome, cyBefore>>
branchVars == <<newCache, newIndex, wg, doneCh, ownerPc, regionPc, regionOut,
                regionErr>>
readVars   == <<rdPc, reads, rdCall, rdIds, rdImages, rdResult, rdViews,
                rdDuring>>
sideVars   == <<pureCall, poolMax, pool, server>>
coreVarsOfCache == <<cacheVars, runVars, stopVars, cycleVars, branchVars,
                     readVars, ctxDone, ticks, cancelledMid>>
coreVars   == <<coreVarsOfCache, server>>

\* main before g.Run(): the server actor will wait on warmed, no actor has
\* returned, no query was answered.
ServerIdle == [pc |-> "wait", interrupted |-> FALSE, answered |-> 0,
               cold |-> FALSE]

\* c.mu held by no cycle.
Free == <<"none", "free">>

FirstCycle(p) == <<p, "first">>
TickCycle(p)  == <<p, "tick">>
RunOf(c)      == c[1]

\* A region goroutine that met no upstream failure (or has not run).
NoFailure == [listErr |-> FALSE, attrErr |-> {}]

\* New(...): empty snapshot, nothing running.
InitCache ==
    /\ cache = EmptyMap
    /\ regionIndex = EmptyMap
    /\ cmu = Free
    /\ running = 0
    /\ runPc = [p \in Runs |-> "idle"]
    /\ runResult = [p \in Runs |-> "none"]
    /\ warmedArg = [p \in Runs |-> FALSE]
    /\ warmed = [p \in Runs |-> 0]
    /\ isWarmed = [p \in Runs |-> 0]
    /\ ctxDone = [p \in Runs |-> FALSE]
    /\ ticks = 0
    /\ stopPc = [s \in Stops |-> "idle"]
    /\ quit = [s \in Stops |-> FALSE]
    /\ cyPc = [c \in Cycles |-> "idle"]
    /\ cyOutcome = [c \in Cycles |-> "none"]
    /\ newCache = [c \in Cycles |-> EmptyMap]
    /\ newIndex = [c \in Cycles |-> EmptyMap]
    /\ wg = [c \in Cycles |-> 0]
    /\ doneCh = [c \in Cycles |-> FALSE]
    /\ ownerPc = [c \in Cycles |-> [o \in OwnerSet |-> "idle"]]
    /\ regionPc = [c \in Cycles |-> [b \in Branches |-> "idle"]]
    /\ regionOut = [c \in Cycles |-> [b \in Branches |-> << >>]]
    /\ regionErr = [c \in Cycles |-> [b \in Branches |-> NoFailure]]
    /\ rdPc = "idle"
    /\ reads = 0
    /\ rdCall = [op |-> "Images", region |-> "r1", filter |-> << >>]
    /\ rdIds = << >>
    /\ rdImages = << >>
    /\ rdResult = [err |-> FALSE, images |-> << >>]
    /\ rdViews = {}
    /\ cancelledMid = {}
    /\ cyBefore = [c \in Cycles |-> <<EmptyMap, EmptyMap>>]
    /\ quitTaker = [s \in Stops |-> "none"]
    /\ rdDuring = {}
    /\ server = ServerIdle

\* No helper call and no getImagesFromOwner call is followed on its own.
NoCall == [fn |-> "none"]
PoolRegions == {"r1", "r2"}
PoolIdle == [pc |-> "idle", n |-> 0, workers |-> 0, sent |-> 0, busy |-> 0]
InitSide ==
    /\ pureCall = NoCall
    /\ poolMax = maxRequests
    /\ pool = [r \in PoolRegions |-> PoolIdle]

Init == InitCache /\ InitSide

(***************************************************************************)
(* updateCache (cache.go 264-324).                                         *)
(***************************************************************************)
\* Variant: a Wait that returns while one goroutine of the group is still
\* running.
WaitReturnsEarly(w) == w <= 1

\* wg.Wait() returns when the counter is zero.
WaitReturns(w) == w = 0

\* newIndex[region] = append(newIndex[region], index...)
AppendIndex(idx, region, index) ==
    MapPut(idx, region, MapGet(idx, region, << >>) \o index)

\* Variant: the records of a region goroutine are not stored.
StoreImagesNone(nc, images) == nc

\* for _, image := range images { newCache[*image.Image.ImageId] = image }
StoreImages(nc, images) == PutAll(nc, images)

\* The cases of the select at the end of updateCache that can proceed.
UpdateReady(c) ==
    (IF doneCh[c] THEN {"done"} ELSE {}) \cup
    (IF ctxDone[RunOf(c)] THEN {"ctx"} ELSE {})

\* Where updateCache continues once the select has chosen a case.
AfterSelect(case) == IF case = "done" THEN "lock" ELSE "ret"
OutcomeOf(case)   == IF case = "done" THEN "done" ELSE "cancelled"

\* Lines 265-312: the locals, wg.Add(len(c.ownerIDs)), one goroutine per owner
\* and the goroutine that waits for the group and closes doneCh.
UpdateStart(c) ==
    /\ cyPc[c] = "start"
    /\ cyPc' = [cyPc EXCEPT ![c] = "select"]
    /\ newCache' = [newCache EXCEPT ![c] = EmptyMap]
    /\ newIndex' = [newIndex EXCEPT ![c] = EmptyMap]
    /\ wg' = [wg EXCEPT ![c] = Len(ownerIDs)]
    /\ doneCh' = [doneCh EXCEPT ![c] = FALSE]
    /\ ownerPc' = [ownerPc EXCEPT ![c] = [o \in OwnerSet |-> "assume"]]
    /\ regionPc' = [regionPc EXCEPT ![c] = [b \in Branches |-> "idle"]]
    /\ regionOut' = [regionOut EXCEPT ![c] = [b \in Branches |-> << >>]]
    /\ regionErr' = [regionErr EXCEPT ![c] = [b \in Branches |-> NoFailure]]
    /\ cyBefore' = [cyBefore EXCEPT ![c] = <<cache, regionIndex>>]
    /\ UNCHANGED <<cacheVars, runVars, stopVars, readVars, cyOutcome, ctxDone,
                   ticks, cancelledMid>>

    /\ UNCHANGED sideVars
\* Variant: the return after a failed assumeRole skips wg.Done.
AfterAssumeNoDone(ok, w) == IF ok THEN w + Cardinality(regions) - 1 ELSE w

\* The WaitGroup counter when the account goroutine returns: with a session,
\* wg.Add(len(c.regions)) and the deferred wg.Done; without, the wg.Done.
AfterAssume(ok, w) == IF ok THEN w + Cardinality(regions) - 1 ELSE w - 1

\* Lines 276-306, the account goroutine: assumeRole fails (return, deferred
\* wg.Done) or succeeds (wg.Add(len(c.regions)), one goroutine per region,
\* deferred wg.Done).
OwnerStep(c, o) ==
    /\ ownerPc[c][o] = "assume"
    /\ \E ok \in BOOLEAN :
         IF ok
         THEN /\ ownerPc' = [ownerPc EXCEPT ![c][o] = "done"]
              /\ wg' = [wg EXCEPT ![c] = AfterAssume(TRUE, @)]
              /\ regionPc' = [regionPc EXCEPT ![c] =
                     [b \in Branches |-> IF b[1] = o THEN "run" ELSE @[b]]]
         ELSE /\ ownerPc' = [ownerPc EXCEPT ![c][o] = "failed"]
              /\ wg' = [wg EXCEPT ![c] = AfterAssume(FALSE, @)]
              /\ UNCHANGED regionPc
    /\ UNCHANGED <<cacheVars, runVars, stopVars, readVars, cycleVars, ctxDone,
                   ticks, cancelledMid, newCache, newIndex, doneCh, regionOut,
                   regionErr>>

    /\ UNCHANGED sideVars
\* Lines 289-304, the region goroutine: getImagesFromOwner, then the
\* accumulation under the cycle's mu, then the deferred wg.Done.
RegionStep(c, o, r) ==
    /\ regionPc[c][<<o, r>>] = "run"
    /\ \E res \in getImagesFromOwner(o, r) :
         /\ newIndex' = [newIndex EXCEPT ![c] = AppendIndex(@, r, res.index)]
         /\ newCache' = [newCache EXCEPT ![c] = StoreImages(@, res.images)]
         /\ regionOut' = [regionOut EXCEPT ![c][<<o, r>>] = res.index]
         /\ regionErr' = [regionErr EXCEPT ![c][<<o, r>>] =
                [listErr |-> res.listErr, attrErr |-> res.attrErr]]
    /\ regionPc' = [regionPc EXCEPT ![c][<<o, r>>] = "done"]
    /\ wg' = [wg EXCEPT ![c] = @ - 1]
    /\ UNCHANGED <<cacheVars, runVars, stopVars, readVars, cycleVars, ctxDone,
                   ticks, cancelledMid, doneCh, ownerPc>>

    /\ UNCHANGED sideVars
\* Some enumeration of the set S as a sequence.
RECURSIVE SetToSeq(_)
SetToSeq(S) ==
    IF S = {} THEN << >>
    ELSE LET x == CHOOSE y \in S : TRUE IN <<x>> \o SetToSeq(S \ {x})

\* The outcomes getImagesFromOwner can have in any branch, and the ways to
\* give every branch one of its own outcomes.
BranchOutcomes == UNION {getImagesFromOwner(b[1], b[2]) : b \in Branches}
OutcomeChoices ==
    {f \in [Branches -> BranchOutcomes] :
        \A b \in Branches : f[b] \in getImagesFromOwner(b[1], b[2])}

\* The accumulators (newCache, newIndex) after the region goroutines of
\* `order` have run lines 294-301 one after the other, starting from acc;
\* res[b] is what getImagesFromOwner returned in branch b.
RECURSIVE Accumulated(_, _, _)
Accumulated(acc, order, res) ==
    IF order = << >> THEN acc
    ELSE LET b == Head(order)
         IN  Accumulated(
                 [cache |-> StoreImages(acc.cache, res[b].images),
                  index |-> AppendIndex(acc.index, b[2], res[b].index)],
                 Tail(order), res)

\* Lines 276-306 for every owner at once: all the account goroutines of the
\* cycle and their region goroutines run to completion.  The goroutines touch
\* only the locals of the cycle, so the step is OwnerStep and RegionStep taken
\* for all owners, the accumulations in any order.
UpdateBranches(c) ==
    /\ cyPc[c] \in {"select", "parked", "ret", "end"}
    /\ \A o \in OwnerSet : ownerPc[c][o] = "assume"
    /\ \E ok \in SUBSET OwnerSet :
         \E order \in Orderings(SetToSeq(ok \X regions)) :
           \E res \in OutcomeChoices :
             LET acc == Accumulated([cache |-> EmptyMap, index |-> EmptyMap],
                                    order, res)
             IN  /\ newCache' = [newCache EXCEPT ![c] = acc.cache]
                 /\ newIndex' = [newIndex EXCEPT ![c] = acc.index]
                 /\ regionOut' = [regionOut EXCEPT ![c] =
                        [b \in Branches |->
                            IF b[1] \in ok THEN res[b].index ELSE << >>]]
                 /\ regionErr' = [regionErr EXCEPT ![c] =
                        [b \in Branches |->
                            IF b[1] \in ok
                            THEN [listErr |-> res[b].listErr,
                                  attrErr |-> res[b].attrErr]
                            ELSE NoFailure]]
                 /\ ownerPc' = [ownerPc EXCEPT ![c] =
                        [o \in OwnerSet |-> IF o \in ok THEN "done" ELSE "failed"]]
                 /\ regionPc' = [regionPc EXCEPT ![c] =
                        [b \in Branches |-> IF b[1] \in ok THEN "done" ELSE "idle"]]
    /\ wg' = [wg EXCEPT ![c] = 0]
    /\ UNCHANGED <<cacheVars, runVars, stopVars, readVars, cycleVars, ctxDone,
                   ticks, cancelledMid, doneCh>>

    /\ UNCHANGED sideVars
\* Lines 309-312: wg.Wait() has returned, close(doneCh).  An updateCache
\* parked in its select is woken with the doneCh case.
WaiterStep(c) ==
    /\ cyPc[c] \in {"select", "parked", "ret", "end"}
    /\ ~doneCh[c]
    /\ WaitReturns(wg[c])
    /\ doneCh' = [doneCh EXCEPT ![c] = TRUE]
    /\ IF cyPc[c] = "parked"
       THEN /\ cyPc' = [cyPc EXCEPT ![c] = AfterSelect("done")]
            /\ cyOutcome' = [cyOutcome EXCEPT ![c] = OutcomeOf("done")]
       ELSE UNCHANGED <<cyPc, cyOutcome>>
    /\ UNCHANGED <<cyBefore, cacheVars, runVars, stopVars, readVars, ctxDone, ticks,
                   cancelledMid, newCache, newIndex, wg, ownerPc, regionPc,
                   regionOut, regionErr>>

    /\ UNCHANGED sideVars
\* Lines 314-318: the select is evaluated; it takes a case that can proceed,
\* or parks when none can.
UpdateSelect(c) ==
    /\ cyPc[c] = "select"
    /\ IF UpdateReady(c) = {}
       THEN /\ cyPc' = [cyPc EXCEPT ![c] = "parked"]
            /\ UNCHANGED cyOutcome
       ELSE \E case \in UpdateReady(c) :
              /\ cyPc' = [cyPc EXCEPT ![c] = AfterSelect(case)]
              /\ cyOutcome' = [cyOutcome EXCEPT ![c] = OutcomeOf(case)]
    /\ UNCHANGED <<cyBefore, cacheVars, runVars, stopVars, readVars, branchVars, ctxDone,
                   ticks, cancelledMid>>

    /\ UNCHANGED sideVars
\* Line 320: c.mu.Lock().
UpdateLock(c) ==
    /\ cyPc[c] = "lock"
    /\ cmu = Free
    /\ cmu' = c
    /\ cyPc' = [cyPc EXCEPT ![c] = "store"]
    /\ UNCHANGED <<cyBefore, cache, regionIndex, runVars, stopVars, readVars, branchVars,
                   cyOutcome, ctxDone, ticks, cancelledMid>>

    /\ UNCHANGED sideVars
\* Variant: the record map is not replaced with the index.
SwapCacheStale(c) == cache

\* What lines 321-322 assign to c.cache and c.regionIndex.
SwapCache(c) == newCache[c]
SwapIndex(c) == newIndex[c]

\* What Images(region) returns when it runs on one snapshot as a whole.
RECURSIVE Resolve(_, _)
Resolve(m, ids) ==
    IF ids = << >> THEN << >>
    ELSE (IF Head(ids) \in DOMAIN m THEN <<m[Head(ids)]>> ELSE << >>)
         \o Resolve(m, Tail(ids))
View(m, idx, region) == Resolve(m, MapGet(idx, region, << >>))

\* Variant: updateCache returns with c.mu still held.
UnlockMissing(c) == c

\* Line 323: c.mu.Unlock().
Unlock(c) == Free

\* Lines 321-323: both references are replaced, then c.mu.Unlock() and return.
UpdateStore(c) ==
    /\ cyPc[c] = "store"
    /\ cmu = c
    /\ cache' = SwapCache(c)
    /\ regionIndex' = SwapIndex(c)
    /\ cmu' = Unlock(c)
    /\ cyPc' = [cyPc EXCEPT ![c] = "ret"]
    /\ cyOutcome' = [cyOutcome EXCEPT ![c] = "swapped"]
    /\ rdViews' = IF rdPc = "get"
                  THEN rdViews \cup {View(cache', regionIndex', rdCall.region)}
                  ELSE rdViews
    /\ UNCHANGED <<cyBefore, runVars, stopVars, branchVars, ctxDone, ticks, cancelledMid,
                   rdPc, reads, rdCall, rdIds, rdImages, rdResult, rdDuring>>

    /\ UNCHANGED sideVars
(***************************************************************************)
(* The filter pipeline (filter.go).  A stage is [kind, arg].               *)
(***************************************************************************)
SeqToSet(s) == {s[i] : i \in 1..Len(s)}

\* Number of positions of s holding x.
RECURSIVE Count(_, _)
Count(s, x) ==
    IF s = << >> THEN 0
    ELSE (IF Head(s) = x THEN 1 ELSE 0) + Count(Tail(s), x)

\* n copies of x.
RECURSIVE Repeat(_, _)
Repeat(x, n) == IF n = 0 THEN << >> ELSE <<x>> \o Repeat(x, n - 1)

\* Variant: the id of an image is not compared.
ByImageIDAll(ids, images) == images

\* FilterByImageID(ids...): every image is appended once per matching id.
RECURSIVE ByImageID(_, _)
ByImageID(ids, images) ==
    IF images = << >> THEN << >>
    ELSE Repeat(Head(images), Count(ids, Head(images).ImageId))
         \o ByImageID(ids, Tail(images))
FilterByImageID(ids, images) ==
    IF Len(ids) = 0 THEN images ELSE ByImageID(ids, images)

\* Variant: a tag whose key is in the mapping counts whatever its value.
RECURSIVE TagMatchesAnyValue(_, _)
TagMatchesAnyValue(tags, imageTags) ==
    IF imageTags = << >> THEN 0
    ELSE (IF Head(imageTags).Key \in DOMAIN tags THEN 1 ELSE 0)
         + TagMatchesAnyValue(tags, Tail(imageTags))

\* tagMatches of FilterByTags: the image tags whose key is in the mapping and
\* whose value is one of the values listed for the key.
RECURSIVE TagMatches(_, _)
TagMatches(tags, imageTags) ==
    IF imageTags = << >> THEN 0
    ELSE (IF /\ Head(imageTags).Key \in DOMAIN tags
             /\ Head(imageTags).Value \in SeqToSet(tags[Head(imageTags).Key])
          THEN 1 ELSE 0) + TagMatches(tags, Tail(imageTags))

\* FilterByTags(tags)
FilterByTags(tags, images) ==
    IF Cardinality(DOMAIN tags) = 0 THEN images
    ELSE SelectSeq(images,
           LAMBDA im : TagMatches(tags, im.Tags) = Cardinality(DOMAIN tags))

\* Variant: the empty owner id is matched like any other.
FilterByOwnerIDStrict(id, images) ==
    SelectSeq(images, LAMBDA im : id = im.OwnerID)

\* FilterByOwnerID(id)
FilterByOwnerID(id, images) ==
    IF id = "" THEN images
    ELSE SelectSeq(images, LAMBDA im : id = im.OwnerID)

\* Variant: no break, an image is appended once per matching permission.
RECURSIVE FilterByLaunchPermissionNoBreak(_, _)
FilterByLaunchPermissionNoBreak(id, images) ==
    IF id = "" \/ images = << >> THEN images
    ELSE Repeat(Head(images), Count(Head(images).launchPerms, id))
         \o FilterByLaunchPermissionNoBreak(id, Tail(images))

\* FilterByLaunchPermission(id)
FilterByLaunchPermission(id, images) ==
    IF id = "" THEN images
    ELSE SelectSeq(images, LAMBDA im : id \in SeqToSet(im.launchPerms))

\* Filterer.Filter for one stage.
FilterStage(f, images) ==
    CASE f.kind = "ImageID"          -> FilterByImageID(f.arg, images)
      [] f.kind = "Tags"             -> FilterByTags(f.arg, images)
      [] f.kind = "OwnerID"          -> FilterByOwnerID(f.arg, images)
      [] f.kind = "LaunchPermission" -> FilterByLaunchPermission(f.arg, images)

\* Variant: only the first stage is applied.
ApplyHeadOnly(filters, images) ==
    IF filters = << >> THEN images ELSE FilterStage(Head(filters), images)

\* Filter.Apply: the stages in order, each on the output of the previous one.
RECURSIVE Apply(_, _)
Apply(filters, images) ==
    IF filters = << >> THEN images
    ELSE Apply(Tail(filters), FilterStage(Head(filters), images))

(***************************************************************************)
(* The reader: Images and FilterImages (cache.go 219-240, 326-349).        *)
(***************************************************************************)
\* The calls the reader makes.
ReaderCalls ==
    {[op |-> "Images", region |-> "r1", filter |-> << >>],
     [op |-> "Images", region |-> "rx", filter |-> << >>],
     [op |-> "FilterImages", region |-> "r1",
      filter |-> <<[kind |-> "OwnerID", arg |-> "o1"]>>],
     [op |-> "FilterImages", region |-> "rx",
      filter |-> <<[kind |-> "ImageID", arg |-> <<"a">>]>>]}

\* Variant: no region is rejected.
UnknownRegionNever(region) == FALSE

\* idsFromRegion(region): the error for a region outside c.regions, else the
\* ids of the index, or the empty list when the index has no such key.
UnknownRegion(region) == region \notin regions
idsFromRegion(region) ==
    IF UnknownRegion(region)
    THEN [err |-> TRUE, ids |-> << >>]
    ELSE [err |-> FALSE, ids |-> MapGet(regionIndex, region, << >>)]

\* getImage(id): the images appended for one id.
getImage(id) == IF id \in DOMAIN cache THEN <<cache[id]>> ELSE << >>

\* The cycles whose goroutines are calling upstream or accumulating, with
\* updateCache at its select.
AtWork == {c \in Cycles : cyPc[c] \in {"select", "parked"} /\ ~doneCh[c]}

\* Images / FilterImages up to the return of idsFromRegion (under RLock):
\* the error is returned at once, else the loop over the ids starts.
ReadIds ==
    /\ rdPc \in {"idle", "done"}
    /\ reads < MaxReads
    /\ cmu = Free
    /\ \E call \in ReaderCalls :
         LET r == idsFromRegion(call.region)
         IN  /\ rdCall' = call
             /\ rdIds' = r.ids
             /\ rdImages' = << >>
             /\ IF r.err
                THEN /\ rdPc' = "done"
                     /\ rdResult' = [err |-> TRUE, images |-> << >>]
                     /\ rdViews' = {}
                ELSE /\ rdPc' = "get"
                     /\ rdResult' = [err |-> FALSE, images |-> << >>]
                     /\ rdViews' = {View(cache, regionIndex, call.region)}
             /\ rdDuring' = IF r.err THEN {} ELSE AtWork
    /\ reads' = reads + 1
    /\ UNCHANGED <<cacheVars, runVars, stopVars, cycleVars, branchVars, ctxDone,
                   ticks, cancelledMid>>

    /\ UNCHANGED sideVars
\* One iteration of the loop of Images: getImage(id) under its own RLock.
ReadGet ==
    /\ rdPc = "get"
    /\ cmu = Free
    /\ rdIds # << >>
    /\ rdImages' = rdImages \o getImage(Head(rdIds))
    /\ rdIds' = Tail(rdIds)
    /\ rdDuring' = rdDuring \cap AtWork
    /\ UNCHANGED <<cacheVars, runVars, stopVars, cycleVars, branchVars, ctxDone,
                   ticks, cancelledMid, rdPc, reads, rdCall, rdResult, rdViews>>

    /\ UNCHANGED sideVars
\* The loop is over: Images returns, FilterImages applies the filter.
ReadReturn ==
    /\ rdPc = "get"
    /\ rdIds = << >>
    /\ rdPc' = "done"
    /\ rdResult' = [err |-> FALSE,
                    images |-> IF rdCall.op = "FilterImages"
                               THEN Apply(rdCall.filter, rdImages)
                               ELSE rdImages]
    /\ rdDuring' = rdDuring \cap AtWork
    /\ UNCHANGED <<cacheVars, runVars, stopVars, cycleVars, branchVars, ctxDone,
                   ticks, cancelledMid, reads, rdCall, rdIds, rdImages, rdViews>>

    /\ UNCHANGED sideVars
(***************************************************************************)
(* Run and Stop (cache.go 176-216, 258-261).                               *)
(***************************************************************************)
\* Variant: a negative delta is not applied.
AddInt32Up(n, delta) == IF delta < 0 THEN n ELSE n + delta

\* atomic.AddInt32(&c.running, delta), lines 181-182.
AddInt32(n, delta) == n + delta

\* Variant: a cache with one Run in its loop does not count as running.
isRunningSecond == running > 1

\* isRunning(): atomic.LoadInt32(&c.running) != 0
isRunning == running # 0

\* The cases of the select of the Run loop that can proceed: ctx.Done(), or
\* a receive from quitCh for each Stop call parked in its send.  The timer of
\* time.After(c.ttl) is created when the select is entered, so it cannot have
\* fired yet (c.ttl is at least minCacheTTL).
LoopReady(p) ==
    (IF ctxDone[p] THEN {"ctx"} ELSE {}) \cup {s \in Stops : stopPc[s] = "sending"}

\* Variant: the quit case of the loop returns the error of the context.
RunErrorCtx(pc) == "canceled"

\* The error Run returns from each exit of its loop.
RunError(pc) == IF pc = "retStop" THEN "stopped" ELSE "canceled"

\* case q := <-c.quitCh: close(q).  Run p receives the quit channel of Stop s
\* and closes it; what is left of Run is the deferred decrement.
TakeQuit(p, s) ==
    /\ runPc' = [runPc EXCEPT ![p] = "retStop"]
    /\ stopPc' = [stopPc EXCEPT ![s] = "waitAck"]
    /\ quit' = [quit EXCEPT ![s] = TRUE]
    /\ quitTaker' = [quitTaker EXCEPT ![s] = p]

\* Lines 177-179: the isRunning check of Run.
RunCheck(p) ==
    /\ runPc[p] = "idle"
    /\ \E w \in BOOLEAN : warmedArg' = [warmedArg EXCEPT ![p] = w]
    /\ IF isRunning
       THEN /\ runPc' = [runPc EXCEPT ![p] = "returned"]
            /\ runResult' = [runResult EXCEPT ![p] = "running"]
       ELSE /\ runPc' = [runPc EXCEPT ![p] = "entered"]
            /\ UNCHANGED runResult
    /\ UNCHANGED <<cacheVars, stopVars, cycleVars, branchVars, readVars, ctxDone,
                   ticks, cancelledMid, running, warmed, isWarmed>>

    /\ UNCHANGED sideVars
\* Lines 181-193: the increment, and the goroutine of the first update.
RunEnter(p) ==
    /\ runPc[p] = "entered"
    /\ running' = AddInt32(running, 1)
    /\ cyPc' = [cyPc EXCEPT ![FirstCycle(p)] = "start"]
    /\ runPc' = [runPc EXCEPT ![p] = "loop"]
    /\ UNCHANGED <<cyBefore, cacheVars, stopVars, branchVars, readVars, ctxDone, ticks,
                   cancelledMid, runResult, warmedArg, warmed, isWarmed,
                   cyOutcome>>

    /\ UNCHANGED sideVars
\* Lines 189-192: updateCache has returned in the goroutine of the first
\* update: close(isWarmed), and close(warmed) when it is not nil.
FirstWarm(p) ==
    /\ cyPc[FirstCycle(p)] = "ret"
    /\ cyPc' = [cyPc EXCEPT ![FirstCycle(p)] = "end"]
    /\ isWarmed' = [isWarmed EXCEPT ![p] = @ + 1]
    /\ warmed' = [warmed EXCEPT ![p] = IF warmedArg[p] THEN @ + 1 ELSE @]
    /\ UNCHANGED <<cyBefore, cacheVars, stopVars, branchVars, readVars, ctxDone, ticks,
                   cancelledMid, running, runPc, runResult, warmedArg, cyOutcome>>

    /\ UNCHANGED sideVars
\* Lines 195-205: the select of the loop is evaluated.
RunSelect(p) ==
    /\ runPc[p] = "loop"
    /\ IF LoopReady(p) = {}
       THEN /\ runPc' = [runPc EXCEPT ![p] = "parked"]
            /\ UNCHANGED stopVars
       ELSE \E case \in LoopReady(p) :
              IF case = "ctx"
              THEN /\ runPc' = [runPc EXCEPT ![p] = "retCtx"]
                   /\ UNCHANGED stopVars
              ELSE TakeQuit(p, case)
    /\ UNCHANGED <<cacheVars, cycleVars, branchVars, readVars, ctxDone, ticks,
                   cancelledMid, running, runResult, warmedArg, warmed, isWarmed>>

    /\ UNCHANGED sideVars
\* case <-time.After(c.ttl): the timer fires while the loop is parked.
Tick(p) ==
    /\ runPc[p] = "parked"
    /\ ticks < MaxTicks
    /\ ticks' = ticks + 1
    /\ runPc' = [runPc EXCEPT ![p] = "waitWarm"]
    /\ UNCHANGED <<cacheVars, stopVars, cycleVars, branchVars, readVars, ctxDone,
                   cancelledMid, running, runResult, warmedArg, warmed, isWarmed>>

    /\ UNCHANGED sideVars
\* Lines 198-199: <-isWarmed, then the call c.updateCache(ctx).
RunUpdate(p) ==
    /\ runPc[p] = "waitWarm"
    /\ isWarmed[p] > 0
    /\ runPc' = [runPc EXCEPT ![p] = "update"]
    /\ cyPc' = [cyPc EXCEPT ![TickCycle(p)] = "start"]
    /\ cyOutcome' = [cyOutcome EXCEPT ![TickCycle(p)] = "none"]
    /\ UNCHANGED <<cyBefore, cacheVars, stopVars, branchVars, readVars, ctxDone, ticks,
                   cancelledMid, running, runResult, warmedArg, warmed, isWarmed>>

    /\ UNCHANGED sideVars
\* c.updateCache(ctx) has returned to the loop.
RunUpdated(p) ==
    /\ runPc[p] = "update"
    /\ cyPc[TickCycle(p)] = "ret"
    /\ runPc' = [runPc EXCEPT ![p] = "loop"]
    /\ UNCHANGED <<cacheVars, stopVars, cycleVars, branchVars, readVars, ctxDone,
                   ticks, cancelledMid, running, runResult, warmedArg, warmed,
                   isWarmed>>

    /\ UNCHANGED sideVars
\* return ctx.Err() / return errCacheStopped: the deferred decrement runs and
\* Run returns.
RunReturn(p) ==
    /\ runPc[p] \in {"retCtx", "retStop"}
    /\ running' = AddInt32(running, 0 - 1)
    /\ runResult' = [runResult EXCEPT ![p] = RunError(runPc[p])]
    /\ runPc' = [runPc EXCEPT ![p] = "returned"]
    /\ UNCHANGED <<cacheVars, stopVars, cycleVars, branchVars, readVars, ctxDone,
                   ticks, cancelledMid, warmedArg, warmed, isWarmed>>

    /\ UNCHANGED sideVars
\* The caller cancels the context of Run p.  The goroutines parked in a select
\* on ctx.Done() (the loop, an updateCache) are woken with that case.
Cancel(p) ==
    /\ runPc[p] # "idle"
    /\ runResult[p] # "running"
    /\ ~ctxDone[p]
    /\ ctxDone' = [ctxDone EXCEPT ![p] = TRUE]
    /\ runPc' = [runPc EXCEPT ![p] = IF @ = "parked" THEN "retCtx" ELSE @]
    /\ cyPc' = [c \in Cycles |->
                  IF RunOf(c) = p /\ cyPc[c] = "parked"
                  THEN AfterSelect("ctx") ELSE cyPc[c]]
    /\ cyOutcome' = [c \in Cycles |->
                  IF RunOf(c) = p /\ cyPc[c] = "parked"
                  THEN OutcomeOf("ctx") ELSE cyOutcome[c]]
    /\ cancelledMid' = cancelledMid \cup
          {c \in Cycles : /\ RunOf(c) = p
                          /\ cyPc[c] \in {"select", "parked"}
                          /\ wg[c] > 0}
    /\ UNCHANGED <<cyBefore, cacheVars, stopVars, branchVars, readVars, ticks, running,
                   runResult, warmedArg, warmed, isWarmed>>

    /\ UNCHANGED sideVars
\* Line 211: the isRunning check of Stop; with nothing running Stop returns
\* at once ("noop").
StopCheck(s) ==
    /\ stopPc[s] = "idle"
    /\ stopPc' = [stopPc EXCEPT ![s] = IF isRunning THEN "send" ELSE "noop"]
    /\ UNCHANGED <<cacheVars, runVars, cycleVars, branchVars, readVars, ctxDone,
                   ticks, cancelledMid, quit, quitTaker>>

    /\ UNCHANGED sideVars
\* Lines 212-213: c.quitCh <- quit.  A Run loop parked in its select takes the
\* value at once; with none parked the sender parks.
StopSend(s) ==
    /\ stopPc[s] = "send"
    /\ IF \E p \in Runs : runPc[p] = "parked"
       THEN \E p \in Runs : runPc[p] = "parked" /\ TakeQuit(p, s)
       ELSE /\ stopPc' = [stopPc EXCEPT ![s] = "sending"]
            /\ UNCHANGED <<runPc, quit, quitTaker>>
    /\ UNCHANGED <<cacheVars, cycleVars, branchVars, readVars, ctxDone, ticks,
                   cancelledMid, running, runResult, warmedArg, warmed, isWarmed>>

    /\ UNCHANGED sideVars
\* Line 214: <-quit returns once the channel is closed; Stop returns.
StopReturn(s) ==
    /\ stopPc[s] = "waitAck"
    /\ quit[s]
    /\ stopPc' = [stopPc EXCEPT ![s] = "returned"]
    /\ UNCHANGED <<cacheVars, runVars, cycleVars, branchVars, readVars, ctxDone,
                   ticks, cancelledMid, quit, quitTaker>>

    /\ UNCHANGED sideVars
(***************************************************************************)
(* The specifications.                                                     *)
(***************************************************************************)
\* The steps of Run p up to its select, before the first timer expiry.
RunStart(p) ==
    \/ RunCheck(p)
    \/ RunEnter(p)
    \/ FirstWarm(p)
    \/ RunSelect(p)

\* The steps of Run p before the first timer expiry.
RunNoTick(p) ==
    \/ RunStart(p)
    \/ RunReturn(p)

\* The steps of the timer of Run p and of the case of the select it readies.
RunTimer(p) ==
    \/ Tick(p)
    \/ RunUpdate(p)
    \/ RunUpdated(p)

\* The steps of Run p and of its timer.
RunNext(p) ==
    \/ RunNoTick(p)
    \/ RunTimer(p)

\* The steps of Stop s.
StopNext(s) ==
    \/ StopCheck(s)
    \/ StopSend(s)
    \/ StopReturn(s)

\* The steps of updateCache c outside its account and region goroutines.
UpdateNext(c) ==
    \/ UpdateStart(c)
    \/ WaiterStep(c)
    \/ UpdateSelect(c)
    \/ UpdateLock(c)
    \/ UpdateStore(c)

\* The steps of the reader.
ReadNext ==
    \/ ReadIds
    \/ ReadGet
    \/ ReadReturn

\* One Run with Stop, cancellation and the timer, the goroutines of its
\* cycles step by step.
Next ==
    \/ RunNext("run1")
    \/ Cancel("run1")
    \/ StopNext("stop1")
    \/ \E c \in Cycles : UpdateNext(c)
    \/ \E c \in Cycles, o \in OwnerSet : OwnerStep(c, o)
    \/ \E c \in Cycles, o \in OwnerSet, r \in regions : RegionStep(c, o, r)

Spec == Init /\ [][Next]_vars

\* Every upstream call of cycle c succeeded.
NoUpstreamFailure(c) ==
    /\ \A o \in OwnerSet : ownerPc[c][o] = "done"
    /\ \A b \in Branches : /\ regionOut[c][b] = DescribeImages(b[1], b[2])
                            /\ regionErr[c][b] = NoFailure

\* Several Run calls and Stop, before the first timer expiry and with an
\* upstream that answers every call; the goroutines of a cycle are taken
\* together (UpdateBranches).  run2 is called with context.Background().
NextRuns ==
    \/ \E p \in Runs : RunNoTick(p)
    \/ Cancel("run1")
    \/ StopNext("stop1")
    \/ \E c \in Cycles : UpdateNext(c)
    \/ \E c \in Cycles : UpdateBranches(c) /\ NoUpstreamFailure(c)'

SpecRuns == Init /\ [][NextRuns]_vars

\* One Run before the first timer expiry, cancellation, and two Stop calls
\* that may be made together; the goroutines of a cycle are taken together.
NextStops ==
    \/ RunNoTick("run1")
    \/ Cancel("run1")
    \/ \E s \in Stops : StopNext(s)
    \/ \E c \in Cycles : UpdateNext(c)
    \/ \E c \in Cycles : UpdateBranches(c) /\ NoUpstreamFailure(c)'

SpecStops == Init /\ [][NextStops]_vars

\* The Go scheduler runs every goroutine that can take a step: the Run call
\* once made, each Stop call once made, the goroutines of a cycle.  Whether
\* Run, Stop or cancel is called at all is left to the caller.
FairStops ==
    /\ WF_vars(RunEnter("run1") \/ FirstWarm("run1") \/ RunSelect("run1")
                  \/ RunReturn("run1"))
    /\ \A s \in Stops : WF_vars(StopSend(s) \/ StopReturn(s))
    /\ \A c \in Cycles : WF_vars(UpdateNext(c))
    /\ \A c \in Cycles : WF_vars(UpdateBranches(c) /\ NoUpstreamFailure(c)')

SpecStopsFair == SpecStops /\ FairStops

(***************************************************************************)
(* main (part_004 136-185): the group of the cache actor, the http server  *)
(* actor and the signal trapper.  g.Run() waits for the first actor to     *)
(* return and then calls the interrupt of every actor, in the order the    *)
(* actors were added.                                                      *)
(***************************************************************************)
MaxQueries == 1        \* queries answered by the http server

\* The first updateCache of Run p has replaced the snapshot.
FirstCycleCompleted(p) == cyOutcome[FirstCycle(p)] = "swapped"

\* Lines 144-146: the cache actor, cache.Run(ctx, warmed).
MainRun ==
    /\ RunNoTick("run1")
    /\ warmedArg'["run1"]

\* Lines 172-177: the signal trapper returns (a signal was received); g.Run()
\* starts calling the interrupts.
Signal ==
    /\ runPc["run1"] # "idle"
    /\ ~server.interrupted
    /\ server' = [server EXCEPT !.interrupted = TRUE]
    /\ UNCHANGED <<coreVarsOfCache, pureCall, poolMax, pool>>

\* Line 149: cache.Stop() in the interrupt of the cache actor.
InterruptStop ==
    /\ server.interrupted
    /\ StopNext("stop1")

\* Line 151: cancel(), once cache.Stop() has returned.
InterruptCancel ==
    /\ server.interrupted
    /\ stopPc["stop1"] \in {"noop", "returned"}
    /\ Cancel("run1")

\* Lines 160-169: the interrupt of the http server actor, server.Shutdown,
\* called after the interrupt of the cache actor has returned.
Shutdown ==
    /\ server.interrupted
    /\ ctxDone["run1"]
    /\ server.pc # "closed"
    /\ server' = [server EXCEPT !.pc = "closed"]
    /\ UNCHANGED <<coreVarsOfCache, pureCall, poolMax, pool>>

\* Lines 155-159: <-warmed has returned and the server listens.
ListenAndServe ==
    /\ server.pc = "wait"
    /\ warmed["run1"] > 0
    /\ server' = [server EXCEPT !.pc = "listening"]
    /\ UNCHANGED <<coreVarsOfCache, pureCall, poolMax, pool>>

\* The listening server answers a query.
AnswerQuery ==
    /\ server.pc = "listening"
    /\ server.answered < MaxQueries
    /\ server' = [server EXCEPT !.answered = @ + 1,
                                !.cold = @ \/ ~FirstCycleCompleted("run1")]
    /\ UNCHANGED <<coreVarsOfCache, pureCall, poolMax, pool>>

\* main with an upstream that answers every call, before the first timer
\* expiry; the goroutines of a cycle are taken together.
NextMain ==
    \/ MainRun
    \/ Signal
    \/ InterruptStop
    \/ InterruptCancel
    \/ Shutdown
    \/ ListenAndServe
    \/ AnswerQuery
    \/ \E c \in Cycles : UpdateNext(c)
    \/ \E c \in Cycles : UpdateBranches(c) /\ NoUpstreamFailure(c)'

SpecMain == Init /\ [][NextMain]_vars

\* One Run, never cancelled or stopped (so it does not return), and a reader;
\* the goroutines of a cycle are taken together (UpdateBranches).
NextRead ==
    \/ RunStart("run1")
    \/ RunTimer("run1")
    \/ \E c \in Cycles : UpdateNext(c)
    \/ \E c \in Cycles : UpdateBranches(c)
    \/ ReadNext

SpecRead == Init /\ [][NextRead]_vars

(***************************************************************************)
(* The helpers of cache.go taken on their own: poolSize, and New with the  *)
(* TTL option.  Durations are counted in minutes.                          *)
(***************************************************************************)
MaxQueue == 60         \* largest queue length passed to poolSize
MaxCap == 3            \* largest cap (max, MaxConcurrentRequests) tried
MaxTTL == 20           \* largest duration passed to TTL

minCacheTTL == 5       \* const minCacheTTL = 5 * time.Minute
defaultTTL == 15       \* New: ttl: 15 * time.Minute

\* Variant: a requested duration is taken as it is.
TTLNoFloor(ttl) == ttl

\* TTL(ttl): what the option assigns to c.ttl.
TTL(ttl) == IF ttl < minCacheTTL THEN minCacheTTL ELSE ttl

\* c.ttl after New(svc, roleName, ownerIDs, options...): the default, then
\* the TTL option when one is given.
NewTTL(given, ttl) == IF given THEN TTL(ttl) ELSE defaultTTL

\* c.maxRequests after New with MaxConcurrentRequests(max): the option keeps
\* the default unless max > 0.
MaxConcurrentRequests(max) == IF max > 0 THEN max ELSE maxRequests

PoolSizeCalls ==
    [fn : {"poolSize"}, max : 1..MaxCap, queue : 0..MaxQueue,
     done : {FALSE}, out : {0}]
TTLCalls ==
    [fn : {"New"}, given : BOOLEAN, ttl : (0 - 1)..MaxTTL,
     done : {FALSE}, out : {0}]

InitPure ==
    /\ InitCache
    /\ poolMax = maxRequests
    /\ pool = [r \in PoolRegions |-> PoolIdle]
    /\ \/ pureCall \in PoolSizeCalls
       \/ pureCall \in {c \in TTLCalls : c.given \/ c.ttl = 0}

\* poolSize(max, queue, 0.05) is called.
CallPoolSize ==
    /\ pureCall.fn = "poolSize"
    /\ ~pureCall.done
    /\ pureCall' = [pureCall EXCEPT !.done = TRUE,
                                    !.out = poolSize(pureCall.max, pureCall.queue)]
    /\ UNCHANGED <<coreVars, poolMax, pool>>

\* New(...) is called, with TTL(ttl) among the options or without.
CallNew ==
    /\ pureCall.fn = "New"
    /\ ~pureCall.done
    /\ pureCall' = [pureCall EXCEPT !.done = TRUE,
                                    !.out = NewTTL(pureCall.given, pureCall.ttl)]
    /\ UNCHANGED <<coreVars, poolMax, pool>>

NextPure == CallPoolSize \/ CallNew

SpecPure == InitPure /\ [][NextPure]_vars

(***************************************************************************)
(* getImagesFromOwner worker by worker (cache.go 375-449), images counted  *)
(* and not told apart: the calls of one account goroutine of a cache       *)
(* configured with Regions("r1", "r2") and MaxConcurrentRequests(max).     *)
(***************************************************************************)
MaxImages == 40        \* largest number of images DescribeImages lists

\* The numbers of images DescribeImages may list.
ListCounts == {0, 1, MaxImages}

InitPool ==
    /\ InitCache
    /\ pureCall = NoCall
    /\ poolMax \in {MaxConcurrentRequests(m) : m \in 0..MaxCap}
    /\ pool = [r \in PoolRegions |-> PoolIdle]

\* Lines 289-295: the region goroutine calls getImagesFromOwner.
PoolCall(r) ==
    /\ pool[r].pc = "idle"
    /\ pool' = [pool EXCEPT ![r].pc = "list"]
    /\ UNCHANGED <<coreVars, pureCall, poolMax>>

\* Lines 387-399: DescribeImages fails (return) or lists n images.
PoolList(r) ==
    /\ pool[r].pc = "list"
    /\ \/ pool' = [pool EXCEPT ![r].pc = "failed"]
       \/ \E n \in ListCounts :
            pool' = [pool EXCEPT ![r].pc = "spawn", ![r].n = n]
    /\ UNCHANGED <<coreVars, pureCall, poolMax>>

\* Lines 436-439: poolSize(maxReq, len(rsp.Images), 0.05) workers are started;
\* each parks in its receive from workerCh.
PoolSpawn(r) ==
    /\ pool[r].pc = "spawn"
    /\ pool' = [pool EXCEPT ![r].pc = "feed",
                            ![r].workers = poolSize(poolMax, pool[r].n)]
    /\ UNCHANGED <<coreVars, pureCall, poolMax>>

\* Lines 441-443 and 404-410: workerCh <- image is taken by a worker parked
\* in its receive, which then calls DescribeImageAttribute.
PoolSend(r) ==
    /\ pool[r].pc = "feed"
    /\ pool[r].sent < pool[r].n
    /\ pool[r].busy < pool[r].workers
    /\ pool' = [pool EXCEPT ![r].sent = @ + 1, ![r].busy = @ + 1]
    /\ UNCHANGED <<coreVars, pureCall, poolMax>>

\* Lines 411-432: DescribeImageAttribute returns, with an error (continue) or
\* with the permissions (append under mu); the worker is back at its receive.
PoolReply(r) ==
    /\ pool[r].busy > 0
    /\ pool' = [pool EXCEPT ![r].busy = @ - 1]
    /\ UNCHANGED <<coreVars, pureCall, poolMax>>

\* Line 445: every image has been handed over, close(workerCh).
PoolClose(r) ==
    /\ pool[r].pc = "feed"
    /\ pool[r].sent = pool[r].n
    /\ pool' = [pool EXCEPT ![r].pc = "wait"]
    /\ UNCHANGED <<coreVars, pureCall, poolMax>>

\* Lines 446-448: wg.Wait() returns when every worker has returned.
PoolReturn(r) ==
    /\ pool[r].pc = "wait"
    /\ pool[r].busy = 0
    /\ pool' = [pool EXCEPT ![r].pc = "returned"]
    /\ UNCHANGED <<coreVars, pureCall, poolMax>>

NextPool ==
    \E r \in PoolRegions :
        \/ PoolCall(r)
        \/ PoolList(r)
        \/ PoolSpawn(r)
        \/ PoolSend(r)
        \/ PoolReply(r)
        \/ PoolClose(r)
        \/ PoolReturn(r)

SpecPool == InitPool /\ [][NextPool]_vars

(***************************************************************************)
(* Calls of the filter stages and of Filter.Apply (filter.go) on lists of  *)
(* images, held in pureCall.                                               *)
(***************************************************************************)
MaxList == 2           \* longest list of images handed to a filter

\* Images as ec2 describes them: the tag keys of one image are distinct.
SampleImages ==
    {[ImageId |-> "a", OwnerID |-> "o1", Region |-> "r1",
      Tags |-> <<[Key |-> "status", Value |-> "available"],
                 [Key |-> "env", Value |-> "prod"]>>,
      launchPerms |-> <<"o2">>],
     [ImageId |-> "b", OwnerID |-> "o2", Region |-> "r1",
      Tags |-> <<[Key |-> "status", Value |-> "deprecated"]>>,
      launchPerms |-> << >>],
     [ImageId |-> "c", OwnerID |-> "o1", Region |-> "r1",
      Tags |-> << >>,
      launchPerms |-> <<"o2", "o3", "o2">>]}

\* The lists of at most MaxList images.
ImageLists == UNION {[1..n -> SampleImages] : n \in 0..MaxList}

\* The stages the callers build: FilterByImageID(ids...), FilterByTags(tags),
\* FilterByOwnerID(id), FilterByLaunchPermission(id).
SampleStages ==
    <<[kind |-> "ImageID", arg |-> << >>],
      [kind |-> "ImageID", arg |-> <<"a">>],
      [kind |-> "ImageID", arg |-> <<"a", "c">>],
      [kind |-> "ImageID", arg |-> <<"a", "a">>],
      [kind |-> "ImageID", arg |-> <<"z">>],
      [kind |-> "Tags", arg |-> EmptyMap],
      [kind |-> "Tags", arg |-> [status |-> <<"available", "deprecated">>]],
      [kind |-> "Tags", arg |-> [status |-> <<"available">>,
                                 env |-> <<"dev", "prod">>]],
      [kind |-> "Tags", arg |-> [env |-> << >>]],
      [kind |-> "Tags", arg |-> [owner |-> <<"x">>]],
      [kind |-> "OwnerID", arg |-> ""],
      [kind |-> "OwnerID", arg |-> "o1"],
      [kind |-> "OwnerID", arg |-> "o9"],
      [kind |-> "LaunchPermission", arg |-> ""],
      [kind |-> "LaunchPermission", arg |-> "o2"],
      [kind |-> "LaunchPermission", arg |-> "o9"]>>

\* NewFilter(filters...): the Filter holding the stages in the order given.
NewFilter(filters) == filters

InitFilter ==
    /\ InitCache
    /\ poolMax = maxRequests
    /\ pool = [r \in PoolRegions |-> PoolIdle]
    /\ \E images \in ImageLists :
         \/ \E i \in 1..Len(SampleStages) :
              pureCall = [fn |-> "Filter", stage |-> SampleStages[i],
                          images |-> images, done |-> FALSE, out |-> << >>]
         \/ \E i, j, k \in 1..Len(SampleStages) :
              pureCall = [fn |-> "Apply", A |-> SampleStages[i],
                          B |-> SampleStages[j], C |-> SampleStages[k],
                          images |-> images, done |-> FALSE,
                          out |-> << >>, chained |-> << >>]

\* One stage is called on a list: stage.Filter(images).
CallFilter ==
    /\ pureCall.fn = "Filter"
    /\ ~pureCall.done
    /\ pureCall' = [pureCall EXCEPT
                      !.done = TRUE,
                      !.out = FilterStage(pureCall.stage, pureCall.images)]
    /\ UNCHANGED <<coreVars, poolMax, pool>>

\* NewFilter(A, B, C).Apply(images), and NewFilter(C).Apply on what
\* NewFilter(A, B).Apply(images) returned.
CallApply ==
    /\ pureCall.fn = "Apply"
    /\ ~pureCall.done
    /\ pureCall' = [pureCall EXCEPT
                      !.done = TRUE,
                      !.out = Apply(NewFilter(<<pureCall.A, pureCall.B,
                                                pureCall.C>>), pureCall.images),
                      !.chained = Apply(NewFilter(<<pureCall.C>>),
                                        Apply(NewFilter(<<pureCall.A, pureCall.B>>),
                                              pureCall.images))]
    /\ UNCHANGED <<coreVars, poolMax, pool>>

NextFilter == CallFilter \/ CallApply

SpecFilter == InitFilter /\ [][NextFilter]_vars

(***************************************************************************)
(* SortByState (image.go 80-109).  Seconds are counted in units of         *)
(* 2,500,000,000 s, so that the scores fit the integers of the checker:    *)
(* the weight step 10000000000 of image.go:21 is 4 units.                  *)
(***************************************************************************)
MaxSort == 2           \* longest list of freely chosen images handed to SortByState

StateTag == "status"

\* Lines 19-28: deregistered uint64 = 10000000000 * iota, and the six names
\* after it with iota 2..7.
weightStep == 4
deregistered == weightStep * 1
development == weightStep * 2
prerelease == weightStep * 3
unavailable == weightStep * 4
exception == weightStep * 5
deprecated == weightStep * 6
available == weightStep * 7

\* Lines 31-39.
stateWeight ==
    ("available" :> available) @@ ("deprecated" :> deprecated)
    @@ ("exception" :> exception) @@ ("unavailable" :> unavailable)
    @@ ("pre-release" :> prerelease) @@ ("development" :> development)
    @@ ("deregistered" :> deregistered)

\* The values of the status tag among the images sorted; "" is what Tag
\* returns for an image without the tag.
SampleStates ==
    {"available", "deprecated", "exception", "unavailable", "pre-release",
     "development", "deregistered", "Available", "foo", ""}

\* strings.ToLower on the sample values.
ToLower(s) == IF s = "Available" THEN "available" ELSE s

\* The CreationDate strings among the images sorted: four in the layout
\* (0 s, 2.5e9 s, 7.5e9 s and 1e10 s after the epoch) and one that is not.
SampleDates ==
    {"1970-01-01T00:00:00.000Z", "2049-03-22T04:26:40.000Z",
     "2207-09-01T13:20:00.000Z", "2286-11-20T17:46:40.000Z", "2017-10-29"}

\* time.Parse("2006-01-02T15:04:05.000Z", s) and date.Unix() on the sample
\* strings, in units.
ParseDate(s) ==
    CASE s = "1970-01-01T00:00:00.000Z" -> [err |-> FALSE, unix |-> 0]
      [] s = "2049-03-22T04:26:40.000Z" -> [err |-> FALSE, unix |-> 1]
      [] s = "2207-09-01T13:20:00.000Z" -> [err |-> FALSE, unix |-> 3]
      [] s = "2286-11-20T17:46:40.000Z" -> [err |-> FALSE, unix |-> 4]
      [] OTHER -> [err |-> TRUE, unix |-> 0]

\* An image with the given status tag value (no status tag for "") and
\* creation date; the status tag is not its first tag.
SortImage(state, date) ==
    [CreationDate |-> date,
     Tags |-> IF state = "" THEN <<[Key |-> "env", Value |-> "prod"]>>
              ELSE <<[Key |-> "env", Value |-> "prod"],
                     [Key |-> StateTag, Value |-> state]>>]
SortImages == {SortImage(s, d) : s \in SampleStates, d \in SampleDates}

\* Image.Tag(key), lines 61-68: the value of the first tag with the key,
\* "" when there is none.
RECURSIVE TagOf(_, _)
TagOf(tags, key) ==
    IF tags = << >> THEN ""
    ELSE IF Head(tags).Key = key THEN Head(tags).Value
    ELSE TagOf(Tail(tags), key)
Tag(im, key) == TagOf(im.Tags, key)

\* Lines 91-97: icdate, 0 unless the creation date parses.
cdate(im) ==
    IF ~ParseDate(im.CreationDate).err THEN ParseDate(im.CreationDate).unix ELSE 0

\* Variant: a name outside the table weighs like "available".
stateUnknownAvailable(im) ==
    IF Tag(im, StateTag) # ""
    THEN MapGet(stateWeight, ToLower(Tag(im, StateTag)), available)
    ELSE 0

\* Lines 100-106: istate, the table entry of the lower-cased status tag, 0
\* when the tag is "" or the table has no entry.
state(im) ==
    IF Tag(im, StateTag) # ""
    THEN MapGet(stateWeight, ToLower(Tag(im, StateTag)), 0)
    ELSE 0

\* Variant: the creation dates alone are compared.
lessByDate(x, y) == cdate(x) > cdate(y)

\* Line 108: the less function of the sort.
less(x, y) == cdate(x) + state(x) > cdate(y) + state(y)

\* insertionSort of package sort: each element moves left past the elements
\* it is less than.
RECURSIVE insertLeft(_, _)
insertLeft(sorted, x) ==
    IF sorted # << >> /\ less(x, sorted[Len(sorted)])
    THEN Append(insertLeft(SubSeq(sorted, 1, Len(sorted) - 1), x),
                sorted[Len(sorted)])
    ELSE Append(sorted, x)
RECURSIVE insertionSort(_)
insertionSort(s) ==
    IF s = << >> THEN << >>
    ELSE insertLeft(insertionSort(SubSeq(s, 1, Len(s) - 1)), s[Len(s)])

\* The pass quickSort makes before insertionSort on a slice of at most 12
\* elements, up to go1.18: for i from 6 on, elements i and i-6 are swapped
\* when Less(i, i-6).
shellGap == 6
shellPass(s) ==
    [i \in 1..Len(s) |->
        IF i + shellGap <= Len(s) /\ less(s[i + shellGap], s[i]) THEN s[i + shellGap]
        ELSE IF i > shellGap /\ less(s[i], s[i - shellGap]) THEN s[i - shellGap]
        ELSE s[i]]

\* sort.Slice on a slice of at most 12 elements: insertionSort alone (from
\* go1.19 on), or after the pass with gap 6 (up to go1.18).  The toolchain
\* is not fixed by the repository; sort.Slice does not promise stability.
sortSlice(s) == {insertionSort(s), insertionSort(shellPass(s))}

\* The lists sorted: every list of at most MaxSort images, and the lists of
\* shellGap + 1 images of one creation date built from three images.
SortLists ==
    (UNION {[1..n -> SortImages] : n \in 0..MaxSort})
    \cup {<<x, y, x, x, x, x, z>> :
            x, y, z \in {SortImage(s, "2049-03-22T04:26:40.000Z") : s \in SampleStates}}

InitSort ==
    /\ InitCache
    /\ poolMax = maxRequests
    /\ pool = [r \in PoolRegions |-> PoolIdle]
    /\ \E images \in SortLists :
         pureCall = [fn |-> "SortByState", images |-> images, done |-> FALSE,
                     out |-> << >>, icdate |-> << >>, istate |-> << >>]

\* SortByState(images): the slice is sorted in place; icdate and istate are
\* what the less function computes for each image.
CallSort ==
    /\ pureCall.fn = "SortByState"
    /\ ~pureCall.done
    /\ \E sorted \in sortSlice(pureCall.images) :
         pureCall' = [pureCall EXCEPT
                        !.done = TRUE,
                        !.out = sorted,
                        !.icdate = [i \in 1..Len(pureCall.images) |->
                                       cdate(pureCall.images[i])],
                        !.istate = [i \in 1..Len(pureCall.images) |->
                                       state(pureCall.images[i])]]
    /\ UNCHANGED <<coreVars, poolMax, pool>>

NextSort == CallSort

SpecSort == InitSort /\ [][NextSort]_vars

(***************************************************************************)
(* The query API: Params.Decode (params.go) and API.ServeHTTP, getImages   *)
(* (query.go) over a warmed cache configured with two regions.  The        *)
(* queries carry the keys tag, ami, region and account_id.                 *)
(***************************************************************************)
MaxValues == 2         \* most values the key "tag" has in a decoded query

\* The strings of the queries with their characters; a run of characters
\* without colon is written as one element.
chars ==
    ("" :> << >>) @@ ("k" :> <<"k">>) @@ ("v" :> <<"v">>) @@ ("w" :> <<"w">>)
    @@ ("kv" :> <<"kv">>) @@ (":" :> <<":">>)
    @@ ("k:" :> <<"k", ":">>) @@ (":v" :> <<":", "v">>)
    @@ ("k:v" :> <<"k", ":", "v">>) @@ ("k:w" :> <<"k", ":", "w">>)
    @@ ("v:w" :> <<"v", ":", "w">>)
    @@ ("k:v:w" :> <<"k", ":", "v", ":", "w">>)
    @@ ("status" :> <<"status">>) @@ ("available" :> <<"available">>)
    @@ ("deprecated" :> <<"deprecated">>)
    @@ ("status:available" :> <<"status", ":", "available">>)
    @@ ("status:deprecated" :> <<"status", ":", "deprecated">>)
    @@ ("env" :> <<"env">>) @@ ("prod" :> <<"prod">>)
    @@ ("env:prod" :> <<"env", ":", "prod">>)
Chars(s) == chars[s]
\* The string with the given characters.
Str(t) == CHOOSE s \in DOMAIN chars : chars[s] = t

\* Variant: the last colon is looked for.
IndexColonLast(value) ==
    IF \E i \in 1..Len(Chars(value)) : Chars(value)[i] = ":"
    THEN CHOOSE i \in 1..Len(Chars(value)) :
             /\ Chars(value)[i] = ":"
             /\ \A j \in (i + 1)..Len(Chars(value)) : Chars(value)[j] # ":"
    ELSE 0

\* strings.Index(value, ":"), line 40: the place of the first colon, counted
\* from 1; 0 stands for the -1 of a value without colon.
IndexColon(value) ==
    IF \E i \in 1..Len(Chars(value)) : Chars(value)[i] = ":"
    THEN CHOOSE i \in 1..Len(Chars(value)) :
             /\ Chars(value)[i] = ":"
             /\ \A j \in 1..(i - 1) : Chars(value)[j] # ":"
    ELSE 0

\* value[:i] and value[i+1:], line 41.
Before(value, i) == Str(SubSeq(Chars(value), 1, i - 1))
After(value, i) == Str(SubSeq(Chars(value), i + 1, Len(Chars(value))))

\* dedup, lines 69-79: the first occurrence of every item, in order.
RECURSIVE dedup(_)
dedup(items) ==
    IF items = << >> THEN << >>
    ELSE IF items[Len(items)] \in SeqToSet(SubSeq(items, 1, Len(items) - 1))
    THEN dedup(SubSeq(items, 1, Len(items) - 1))
    ELSE Append(dedup(SubSeq(items, 1, Len(items) - 1)), items[Len(items)])

\* Lines 38-45: the values of the key "tag", one after the other; the first
\* value without colon ends the decoding with an error.
RECURSIVE DecodeTag(_, _)
DecodeTag(values, tags) ==
    IF values = << >> THEN [err |-> FALSE, tags |-> tags]
    ELSE IF IndexColon(Head(values)) # 0
    THEN DecodeTag(Tail(values),
                   MapPut(tags, Before(Head(values), IndexColon(Head(values))),
                          Append(MapGet(tags,
                                        Before(Head(values), IndexColon(Head(values))),
                                        << >>),
                                 After(Head(values), IndexColon(Head(values))))))
    ELSE [err |-> TRUE, tags |-> tags]

\* Params.Decode, lines 25-66, for a query with the keys tag, ami, region
\* and account_id (a key the query lacks has no values).
Decode(q) ==
    [err |-> DecodeTag(dedup(q.tag), EmptyMap).err,
     tags |-> DecodeTag(dedup(q.tag), EmptyMap).tags,
     images |-> dedup(q.ami),
     regions |-> dedup(q.region),
     acctID |-> IF q.account_id = << >> THEN "" ELSE dedup(q.account_id)[1]]

\* The regions of the cache queried (c.regions), and its images after a
\* cycle.  Cache.Regions() lists the regions in the order the map yields.
QueryRegions == {"r1", "r2"}
QueryImage(id, owner, region, perms, status, date) ==
    [ImageId |-> id, OwnerID |-> owner, Region |-> region, launchPerms |-> perms,
     Tags |-> <<[Key |-> "env", Value |-> "prod"], [Key |-> StateTag, Value |-> status]>>,
     CreationDate |-> date]
QueryCache ==
    ("a" :> QueryImage("a", "o1", "r1", <<"o2">>, "deprecated",
                       "2049-03-22T04:26:40.000Z"))
    @@ ("b" :> QueryImage("b", "o2", "r1", << >>, "available",
                          "1970-01-01T00:00:00.000Z"))
    @@ ("c" :> QueryImage("c", "o1", "r2", <<"o2">>, "available",
                          "2049-03-22T04:26:40.000Z"))
    @@ ("d" :> QueryImage("d", "o1", "r2", <<"o2">>, "deprecated",
                          "1970-01-01T00:00:00.000Z"))
QueryIndex == ("r1" :> <<"a", "b">>) @@ ("r2" :> <<"c", "d">>)

\* Cache.FilterImages(region, filter), cache.go 219-240 and 326-349, on the
\* cache queried.
FilterImages(region, filter) ==
    IF region \notin QueryRegions
    THEN [err |-> TRUE, images |-> << >>]
    ELSE [err |-> FALSE,
          images |-> Apply(filter, View(QueryCache, QueryIndex, region))]

\* Variant: an unsupported region is passed over.
RECURSIVE getImagesSkipping(_, _, _)
getImagesSkipping(p, rest, images) ==
    IF rest = << >> THEN [err |-> FALSE, images |-> images]
    ELSE getImagesSkipping(p, Tail(rest),
             images \o FilterImages(Head(rest),
                 NewFilter(<<[kind |-> "ImageID", arg |-> p.images],
                             [kind |-> "LaunchPermission", arg |-> p.acctID],
                             [kind |-> "Tags", arg |-> p.tags]>>)).images)

\* The loop of getImages, query.go 106-112: rest are the regions still to be
\* asked, images what the regions before them matched.
RECURSIVE getImagesFrom(_, _, _)
getImagesFrom(p, rest, images) ==
    IF rest = << >> THEN [err |-> FALSE, images |-> images]
    ELSE IF FilterImages(Head(rest),
                NewFilter(<<[kind |-> "ImageID", arg |-> p.images],
                            [kind |-> "LaunchPermission", arg |-> p.acctID],
                            [kind |-> "Tags", arg |-> p.tags]>>)).err
    THEN [err |-> TRUE, images |-> << >>]
    ELSE getImagesFrom(p, Tail(rest),
             images \o FilterImages(Head(rest),
                 NewFilter(<<[kind |-> "ImageID", arg |-> p.images],
                             [kind |-> "LaunchPermission", arg |-> p.acctID],
                             [kind |-> "Tags", arg |-> p.tags]>>)).images)

\* The queries decoded alone, and the queries served.
TagValueLists == UNION {[1..n -> DOMAIN chars] : n \in 0..MaxValues}
DecodeQueries ==
    [tag : TagValueLists, ami : {<<"a", "c", "a">>}, region : {<<"r1">>},
     account_id : {<<"o2">>}]
ServeQueries ==
    [tag : {<< >>, <<"status:available">>, <<"status:available", "env:prod">>,
            <<"status:available", "status:deprecated">>, <<"kv">>},
     ami : {<< >>, <<"a", "c">>, <<"d", "b", "c", "b">>},
     region : {<< >>, <<"r1">>, <<"r2">>, <<"rx">>, <<"r1", "r2">>, <<"r2", "r1">>,
               <<"r1", "rx">>, <<"rx", "r1">>, <<"r2", "r2">>},
     account_id : {<< >>, <<"o2">>}]

InitQuery ==
    /\ InitCache
    /\ poolMax = maxRequests
    /\ pool = [r \in PoolRegions |-> PoolIdle]
    /\ \/ \E q \in DecodeQueries :
            pureCall = [fn |-> "Decode", q |-> q, done |-> FALSE,
                        p |-> Decode([tag |-> << >>, ami |-> << >>, region |-> << >>,
                                      account_id |-> << >>])]
       \/ \E q \in ServeQueries, regs \in Orderings(SetToSeq(QueryRegions)) :
            pureCall = [fn |-> "ServeHTTP", q |-> q, regions |-> regs,
                        done |-> FALSE, status |-> 0, images |-> << >>]

\* p.Decode is called on the query.
CallDecode ==
    /\ pureCall.fn = "Decode"
    /\ ~pureCall.done
    /\ pureCall' = [pureCall EXCEPT !.done = TRUE, !.p = Decode(pureCall.q)]
    /\ UNCHANGED <<coreVars, poolMax, pool>>

\* ServeHTTP, query.go 45-64, when Decode fails: the response is 400.
ServeBadQuery ==
    /\ pureCall.fn = "ServeHTTP"
    /\ ~pureCall.done
    /\ Decode(pureCall.q).err
    /\ pureCall' = [pureCall EXCEPT !.done = TRUE, !.status = 400]
    /\ UNCHANGED <<coreVars, poolMax, pool>>

\* The regions asked: those of the query, a.regions when it names none
\* (lines 53-55).
ServeRegions(p, regs) == IF Len(p.regions) = 0 THEN regs ELSE p.regions

\* ServeHTTP when Decode succeeds: getImages over the regions asked, 400 if
\* it fails, else the images sorted by SortByState and encoded.
ServeQuery ==
    /\ pureCall.fn = "ServeHTTP"
    /\ ~pureCall.done
    /\ ~Decode(pureCall.q).err
    /\ IF getImagesFrom(Decode(pureCall.q),
                        ServeRegions(Decode(pureCall.q), pureCall.regions), << >>).err
       THEN pureCall' = [pureCall EXCEPT !.done = TRUE, !.status = 400]
       ELSE \E sorted \in sortSlice(getImagesFrom(Decode(pureCall.q),
                                        ServeRegions(Decode(pureCall.q),
                                                     pureCall.regions), << >>).images) :
                pureCall' = [pureCall EXCEPT !.done = TRUE, !.status = 200,
                                             !.images = sorted]
    /\ UNCHANGED <<coreVars, poolMax, pool>>

NextQuery == CallDecode \/ ServeBadQuery \/ ServeQuery

SpecQuery == InitQuery /\ [][NextQuery]_vars

(***************************************************************************)
(* The accumulation of updateCache (cache.go 296-301, 320-323) for any     *)
(* configured account list and any upstream listing, followed by Images;   *)
(* the call is held in pureCall.  The region goroutines store their        *)
(* results under the mutex of the cycle, in any order.                     *)
(***************************************************************************)
AccumRegions == {"r1", "r2"}      \* c.regions of these calls

\* AMIQUERY_OWNER_IDS split at the commas: two accounts, or one named twice.
SampleOwnerIDs == {<<"o1", "o2">>, <<"o1", "o1">>}

\* What getImagesFromOwner returns as index for one (owner, region).
SampleIndexes == {<< >>, <<"a">>, <<"b">>, <<"a", "b">>}

\* The upstream: the ids each account has in each region.
Upstreams == [{"o1", "o2"} \X AccumRegions -> SampleIndexes]

\* The images getImagesFromOwner returns with the index.
ImagesOf(index, owner, region) ==
    [i \in 1..Len(index) |-> Image(index[i], owner, region)]

InitAccum ==
    /\ InitCache
    /\ poolMax = maxRequests
    /\ pool = [r \in PoolRegions |-> PoolIdle]
    /\ \E owners \in SampleOwnerIDs, up \in Upstreams :
         pureCall = [fn |-> "updateCache", owners |-> owners, up |-> up,
                     pending |-> (1..Len(owners)) \X AccumRegions,
                     newCache |-> EmptyMap, newIndex |-> EmptyMap,
                     pc |-> "branches", cache |-> EmptyMap,
                     regionIndex |-> EmptyMap, region |-> "r1",
                     out |-> << >>]

\* Lines 296-301: the goroutine of one (owner, region) stores what
\* getImagesFromOwner returned.
AccumBranch ==
    /\ pureCall.fn = "updateCache"
    /\ pureCall.pc = "branches"
    /\ \E b \in pureCall.pending :
         LET owner == pureCall.owners[b[1]]
             index == pureCall.up[<<owner, b[2]>>]
         IN pureCall' = [pureCall EXCEPT
               !.pending = @ \ {b},
               !.newIndex = AppendIndex(@, b[2], index),
               !.newCache = PutAll(@, ImagesOf(index, owner, b[2]))]
    /\ UNCHANGED <<coreVars, poolMax, pool>>

\* Lines 314-323: every goroutine is done; the snapshot is replaced.
AccumSwap ==
    /\ pureCall.fn = "updateCache"
    /\ pureCall.pc = "branches"
    /\ pureCall.pending = {}
    /\ pureCall' = [pureCall EXCEPT !.pc = "swapped",
                                    !.cache = pureCall.newCache,
                                    !.regionIndex = pureCall.newIndex]
    /\ UNCHANGED <<coreVars, poolMax, pool>>

\* Images(region) on the snapshot (cache.go 219-231).
AccumImages ==
    /\ pureCall.fn = "updateCache"
    /\ pureCall.pc = "swapped"
    /\ \E region \in AccumRegions :
         pureCall' = [pureCall EXCEPT
               !.pc = "read",
               !.region = region,
               !.out = View(pureCall.cache, pureCall.regionIndex, region)]
    /\ UNCHANGED <<coreVars, poolMax, pool>>

NextAccum == AccumBranch \/ AccumSwap \/ AccumImages

SpecAccum == InitAccum /\ [][NextAccum]_vars

(***************************************************************************)
(* One getImagesFromOwner call with its images and workers told apart      *)
(* (cache.go 387-449); the call is held in pureCall.  index and images are *)
(* kept as what each holds after the leading entries on which they agree   *)
(* (indexRest, imagesRest), with whether an image was stored or dropped.   *)
(***************************************************************************)
\* The numbers of images DescribeImages may list in these calls.
EnrichCounts == ListCounts \cup {2}

\* The workers a call may start.
EnrichWorkers == 1..poolSize(maxRequests, MaxImages)

\* Variant: mu.Lock() never waits.
MuFreeAlways(mu) == TRUE

\* mu.Lock() returns when no worker holds mu (0).
MuFree(mu) == mu = 0

InitEnrich ==
    /\ InitCache
    /\ poolMax = maxRequests
    /\ pool = [r \in PoolRegions |-> PoolIdle]
    /\ \E maxReq \in {1, maxRequests} :
         pureCall = [fn |-> "getImagesFromOwner", maxReq |-> maxReq,
                     pc |-> "list", n |-> 0, workers |-> 0, sent |-> 0,
                     closed |-> FALSE, wg |-> 0, mu |-> 0,
                     wpc |-> << >>, held |-> << >>, taken |-> << >>,
                     stored |-> FALSE, dropped |-> FALSE, indexRest |-> << >>, imagesRest |-> << >>,
                     out |-> "none"]

\* Lines 387-399: DescribeImages fails, and the call returns two empty
\* lists, or it lists n images.
EnrichList ==
    /\ pureCall.fn = "getImagesFromOwner"
    /\ pureCall.pc = "list"
    /\ \/ pureCall' = [pureCall EXCEPT !.pc = "returned", !.out = "equal"]
       \/ \E n \in EnrichCounts :
            pureCall' = [pureCall EXCEPT !.pc = "spawn", !.n = n,
                                         !.taken = [i \in 1..n |-> 0]]
    /\ UNCHANGED <<coreVars, poolMax, pool>>

\* Lines 436-439: wg.Add(1) and go worker(), poolSize(...) times; each worker
\* parks in its receive from workerCh.
EnrichSpawn ==
    /\ pureCall.fn = "getImagesFromOwner"
    /\ pureCall.pc = "spawn"
    /\ LET k == poolSize(pureCall.maxReq, pureCall.n)
       IN pureCall' = [pureCall EXCEPT !.pc = "feed", !.workers = k,
                                       !.wg = k,
                                       !.wpc = [w \in 1..k |-> "recv"],
                                       !.held = [w \in 1..k |-> 0]]
    /\ UNCHANGED <<coreVars, poolMax, pool>>

\* Lines 441-443 and 404: workerCh <- image meets the receive of worker w.
EnrichSend(w) ==
    /\ pureCall.fn = "getImagesFromOwner"
    /\ pureCall.pc = "feed"
    /\ pureCall.sent < pureCall.n
    /\ w <= pureCall.workers
    /\ pureCall.wpc[w] = "recv"
    /\ LET i == pureCall.sent + 1
       IN pureCall' = [pureCall EXCEPT !.sent = i,
                                       !.taken[i] = @ + 1,
                                       !.wpc[w] = "attr",
                                       !.held[w] = i]
    /\ UNCHANGED <<coreVars, poolMax, pool>>

\* Lines 407-414: DescribeImageAttribute fails (continue) or succeeds.
EnrichAttr(w) ==
    /\ pureCall.fn = "getImagesFromOwner"
    /\ w <= pureCall.workers
    /\ pureCall.wpc[w] = "attr"
    /\ \/ pureCall' = [pureCall EXCEPT !.wpc[w] = "recv", !.held[w] = 0,
                                         !.dropped = TRUE]
       \/ pureCall' = [pureCall EXCEPT !.wpc[w] = "lock"]
    /\ UNCHANGED <<coreVars, poolMax, pool>>

\* Line 423: mu.Lock().
EnrichLock(w) ==
    /\ pureCall.fn = "getImagesFromOwner"
    /\ w <= pureCall.workers
    /\ pureCall.wpc[w] = "lock"
    /\ MuFree(pureCall.mu)
    /\ pureCall' = [pureCall EXCEPT !.mu = w, !.wpc[w] = "index"]
    /\ UNCHANGED <<coreVars, poolMax, pool>>

\* Line 424: index = append(index, *image.ImageId).
EnrichIndex(w) ==
    /\ pureCall.fn = "getImagesFromOwner"
    /\ w <= pureCall.workers
    /\ pureCall.wpc[w] = "index"
    /\ LET i == pureCall.held[w]
       IN IF /\ pureCall.indexRest = << >>
             /\ pureCall.imagesRest # << >>
             /\ Head(pureCall.imagesRest) = i
          THEN pureCall' = [pureCall EXCEPT !.wpc[w] = "image",
                                            !.imagesRest = Tail(@)]
          ELSE pureCall' = [pureCall EXCEPT !.wpc[w] = "image",
                                            !.indexRest = Append(@, i)]
    /\ UNCHANGED <<coreVars, poolMax, pool>>

\* Lines 425-431: images = append(images, Image{...}); mu.Unlock(); the
\* worker is back at its receive.
EnrichImage(w) ==
    /\ pureCall.fn = "getImagesFromOwner"
    /\ w <= pureCall.workers
    /\ pureCall.wpc[w] = "image"
    /\ LET i == pureCall.held[w]
           mu == IF pureCall.mu = w THEN 0 ELSE pureCall.mu
       IN IF /\ pureCall.imagesRest = << >>
             /\ pureCall.indexRest # << >>
             /\ Head(pureCall.indexRest) = i
          THEN pureCall' = [pureCall EXCEPT !.wpc[w] = "recv",
                                            !.held[w] = 0, !.mu = mu,
                                            !.stored = TRUE,
                                            !.indexRest = Tail(@)]
          ELSE pureCall' = [pureCall EXCEPT !.wpc[w] = "recv",
                                            !.held[w] = 0, !.mu = mu,
                                            !.stored = TRUE,
                                            !.imagesRest = Append(@, i)]
    /\ UNCHANGED <<coreVars, poolMax, pool>>

\* Line 445: close(workerCh), every image sent.
EnrichClose ==
    /\ pureCall.fn = "getImagesFromOwner"
    /\ pureCall.pc = "feed"
    /\ pureCall.sent = pureCall.n
    /\ pureCall' = [pureCall EXCEPT !.pc = "wait", !.closed = TRUE]
    /\ UNCHANGED <<coreVars, poolMax, pool>>

\* Lines 403-404: the range over the closed workerCh ends; the deferred
\* wg.Done() runs.
EnrichExit(w) ==
    /\ pureCall.fn = "getImagesFromOwner"
    /\ w <= pureCall.workers
    /\ pureCall.wpc[w] = "recv"
    /\ pureCall.closed
    /\ pureCall' = [pureCall EXCEPT !.wpc[w] = "exit", !.wg = @ - 1]
    /\ UNCHANGED <<coreVars, poolMax, pool>>

\* Lines 446-448: wg.Wait() returns; return images, index.
EnrichReturn ==
    /\ pureCall.fn = "getImagesFromOwner"
    /\ pureCall.pc = "wait"
    /\ WaitReturns(pureCall.wg)
    /\ pureCall' = [pureCall EXCEPT
          !.pc = "returned",
          !.out = IF pureCall.indexRest = << >> /\ pureCall.imagesRest = << >>
                  THEN "equal" ELSE "differ"]
    /\ UNCHANGED <<coreVars, poolMax, pool>>

\* The steps of worker w.
EnrichWorker(w) ==
    \/ EnrichAttr(w)
    \/ EnrichLock(w)
    \/ EnrichIndex(w)
    \/ EnrichImage(w)
    \/ EnrichExit(w)

\* The steps of the goroutine that called getImagesFromOwner.
EnrichFeeder ==
    \/ EnrichList
    \/ EnrichSpawn
    \/ \E w \in EnrichWorkers : EnrichSend(w)
    \/ EnrichClose
    \/ EnrichReturn

NextEnrich ==
    \/ EnrichFeeder
    \/ \E w \in EnrichWorkers : EnrichWorker(w)

\* The Go scheduler runs every goroutine that can take a step, and the
\* upstream answers every call.
SpecEnrich ==
    /\ InitEnrich
    /\ [][NextEnrich]_vars
    /\ WF_vars(EnrichFeeder)
    /\ \A w \in EnrichWorkers : WF_vars(EnrichWorker(w))

(***************************************************************************)
(* Properties.                                                             *)
(***************************************************************************)
\* The positions of Run between its increment and its deferred decrement.
ActivePcs == {"loop", "parked", "waitWarm", "update", "retCtx", "retStop"}

\* Every account goroutine of cycle c has returned and every region goroutine
\* it started has returned.
BranchesFinished(c) ==
    /\ \A o \in OwnerSet : ownerPc[c][o] \in {"done", "failed"}
    /\ \A b \in Branches :
         regionPc[c][b] = IF ownerPc[c][b[1]] = "done" THEN "done" ELSE "idle"

\* The goroutines of cycle c that have not returned yet.
Unfinished(c) ==
    Cardinality({o \in OwnerSet : ownerPc[c][o] = "assume"}) +
    Cardinality({b \in Branches : regionPc[c][b] = "run"})

\* C1: an Images call that has returned without error returns what Images
\* gives on one of the snapshots served during the call, taken as a whole.
C1_ImagesFromOneSnapshot ==
    (rdPc = "done" /\ rdCall.op = "Images" /\ ~rdResult.err)
        => rdResult.images \in rdViews

\* C2: a cycle reaches c.mu.Lock() and the replacement of the snapshot only
\* when all its account and region goroutines have returned, and every step
\* that changes the served snapshot is taken by such a cycle.
C2_SwapAfterBranches ==
    /\ [](\A c \in Cycles : cyPc[c] \in {"lock", "store"} => BranchesFinished(c))
    /\ [][(cache' # cache \/ regionIndex' # regionIndex)
            => \E c \in Cycles : cyPc[c] = "store" /\ BranchesFinished(c)]_vars

\* C2 witness: a cycle has replaced the snapshot with the images of two region
\* goroutines.
C2_Witness ==
    \E c \in Cycles :
        /\ cyOutcome[c] = "swapped"
        /\ \A b \in Branches : regionPc[c][b] = "done" /\ regionOut[c][b] # << >>
        /\ Cardinality(DOMAIN cache) = 2

\* What a snapshot serves: its records, and the ids it lists for every
\* configured region (none when the index has no entry for the region).
Served(m, idx) == <<m, [r \in regions |-> MapGet(idx, r, << >>)]>>

\* C3: when the context of a cycle was cancelled while goroutines of the cycle
\* were still running, the served snapshot stays what it was when the cycle
\* started, and Run, unless it took a Stop request, returns the error of the
\* context.
C3_CancelKeepsSnapshot ==
    \A c \in cancelledMid :
        /\ Served(cache, regionIndex) = Served(cyBefore[c][1], cyBefore[c][2])
        /\ runPc[RunOf(c)] = "returned"
             => \/ runResult[RunOf(c)] = "canceled"
                \/ \E s \in Stops : quitTaker[s] = RunOf(c)

\* C4: every id of the served index has a record in the served map, and a step
\* that changes either of them is the store of the cycle holding c.mu, which
\* replaces both with the accumulators of that cycle.
C4_IndexResolves ==
    /\ [](\A r \in DOMAIN regionIndex :
            \A i \in 1..Len(regionIndex[r]) : regionIndex[r][i] \in DOMAIN cache)
    /\ [][(cache' # cache \/ regionIndex' # regionIndex)
            => \E c \in Cycles : /\ cmu = c
                                 /\ cache' = newCache[c]
                                 /\ regionIndex' = newIndex[c]]_vars

\* C4 witness: the served index lists two ids, after an earlier snapshot that
\* was replaced.
C4_Witness ==
    /\ \E r \in DOMAIN regionIndex : Len(regionIndex[r]) = 2
    /\ cyOutcome[TickCycle("run1")] = "swapped"

\* C5: a Run that makes its isRunning check while another Run is between its
\* increment and its decrement returns errCacheRunning in that step, starts no
\* cycle, closes no channel and leaves the counter and the other Run alone.
C5_RunRejected ==
    /\ [][\A p \in Runs :
            (/\ runPc[p] = "idle"
             /\ runPc'[p] # "idle"
             /\ \E q \in Runs \ {p} : runPc[q] \in ActivePcs)
            => /\ runPc'[p] = "returned"
               /\ runResult'[p] = "running"
               /\ running' = running
               /\ cyPc' = cyPc
               /\ warmed' = warmed
               /\ isWarmed' = isWarmed
               /\ \A q \in Runs \ {p} : runPc'[q] = runPc[q]]_vars
    /\ [](\A p \in Runs :
            runResult[p] = "running"
            => /\ cyPc[FirstCycle(p)] = "idle"
               /\ cyPc[TickCycle(p)] = "idle"
               /\ warmed[p] = 0
               /\ isWarmed[p] = 0)

\* C5 witness: a Run given a warmed channel was rejected while the other Run
\* is in its loop.
C5_Witness ==
    \E p \in Runs :
        /\ runResult[p] = "running"
        /\ warmedArg[p]
        /\ \E q \in Runs \ {p} : runPc[q] \in ActivePcs

\* C6: a Stop that found the cache running returns only after a Run loop has
\* received its quit channel and closed it; that Run returns errCacheStopped;
\* and a Run whose context is not cancelled returns from its loop only so.
C6_StopAcknowledged ==
    /\ \A s \in Stops :
         /\ stopPc[s] = "returned"
              => /\ quit[s]
                 /\ quitTaker[s] \in Runs
                 /\ runPc[quitTaker[s]] \in {"retStop", "returned"}
         /\ (quitTaker[s] \in Runs /\ runPc[quitTaker[s]] = "returned")
              => runResult[quitTaker[s]] = "stopped"
    /\ \A p \in Runs :
         (runPc[p] = "returned" /\ runResult[p] # "running" /\ ~ctxDone[p])
              => /\ runResult[p] = "stopped"
                 /\ \E s \in Stops : quitTaker[s] = p

\* C6 witness: Stop has returned and the Run that took its request has
\* returned errCacheStopped, its context never cancelled.
C6_Witness ==
    \E s \in Stops :
        /\ stopPc[s] = "returned"
        /\ quitTaker[s] \in Runs
        /\ runPc[quitTaker[s]] = "returned"
        /\ runResult[quitTaker[s]] = "stopped"
        /\ ~ctxDone[quitTaker[s]]

\* C7: once a Stop that found the cache running has returned, isRunning() is
\* false.
C7_StoppedNotRunning ==
    \A s \in Stops : stopPc[s] = "returned" => ~isRunning

\* C8: close(isWarmed) and close(warmed) run at most once for a Run, and only
\* when the first cycle of the Run has replaced the snapshot (it did not end
\* by cancellation).
C8_WarmAfterCompletedCycle ==
    \A p \in Runs :
        /\ isWarmed[p] <= 1
        /\ warmed[p] <= 1
        /\ isWarmed[p] >= 1 => cyOutcome[FirstCycle(p)] = "swapped"
        /\ warmed[p] >= 1 => cyOutcome[FirstCycle(p)] = "swapped"

\* C9: a returned Images or FilterImages call has the error exactly when its
\* region is outside the configured set, whatever the snapshot holds, and for
\* a configured region with no cached images it has the empty list, no error.
C9_RegionError ==
    rdPc = "done"
    => /\ rdResult.err <=> rdCall.region \notin regions
       /\ rdResult.err => rdResult.images = << >>
       /\ (rdCall.region \in regions /\ rdViews = {<< >>})
            => rdResult = [err |-> FALSE, images |-> << >>]

\* C9 witness: FilterImages on an unconfigured region has returned the error
\* while the snapshot holds images.
C9_Witness ==
    /\ rdPc = "done"
    /\ rdCall.op = "FilterImages"
    /\ rdCall.region \notin regions
    /\ rdResult.err
    /\ DOMAIN cache # {}

\* C10: in a cycle that is about to replace the snapshot, an owner whose
\* assumeRole failed has started no region goroutine and has no record in the
\* accumulators; every other owner's region goroutines have run and what they
\* returned is in the accumulators; and the WaitGroup counter is the number of
\* goroutines still running, so the failure does not keep the cycle from the
\* swap.
C10_AssumeRoleFailure ==
    \A c \in Cycles :
        /\ cyPc[c] \in {"select", "parked", "lock", "store"}
             => wg[c] = Unfinished(c)
        /\ cyPc[c] \in {"lock", "store"}
             => \A o \in OwnerSet :
                  IF ownerPc[c][o] = "failed"
                  THEN /\ \A r \in regions : regionPc[c][<<o, r>>] = "idle"
                       /\ \A id \in DOMAIN newCache[c] : newCache[c][id].OwnerID # o
                  ELSE \A r \in regions :
                         /\ regionPc[c][<<o, r>>] = "done"
                         /\ \A id \in SeqToSet(regionOut[c][<<o, r>>]) :
                              /\ r \in DOMAIN newIndex[c]
                              /\ id \in SeqToSet(newIndex[c][r])
                              /\ id \in DOMAIN newCache[c]
                              /\ newCache[c][id] = Image(id, o, r)

\* C10 witness: a cycle in which assumeRole failed for o1 has replaced the
\* snapshot with the image of o2.
C10_Witness ==
    \E c \in Cycles :
        /\ cyOutcome[c] = "swapped"
        /\ ownerPc[c]["o1"] = "failed"
        /\ ownerPc[c]["o2"] = "done"
        /\ DOMAIN cache = {"b"}
        /\ cache["b"].OwnerID = "o2"

\* Cycle c has replaced the snapshot and updateCache is returning: the served
\* snapshot is the one c stored.
JustSwapped(c) == cyOutcome[c] = "swapped" /\ cyPc[c] = "ret"

\* The region goroutines of cycle c that have returned.
Returned(c) == {b \in Branches : regionPc[c][b] = "done"}

\* The ids of sequence-valued map entry m[k], none when the key is missing.
IdsAt(m, k) == SeqToSet(MapGet(m, k, << >>))

\* C11: in a cycle about to replace the snapshot, a region goroutine whose
\* DescribeImages call failed has returned no id, and the accumulators hold no
\* record of its (owner, region) pair and none of the ids of the pair; every
\* other region goroutine that ran has in the accumulators each id it
\* returned, with the record of its own owner and region.
C11_ListFailure ==
    \A c \in Cycles :
        cyPc[c] \in {"lock", "store"}
        => \A b \in Returned(c) :
             IF regionErr[c][b].listErr
             THEN /\ regionOut[c][b] = << >>
                  /\ \A id \in DOMAIN newCache[c] :
                       ~(/\ newCache[c][id].OwnerID = b[1]
                         /\ newCache[c][id].Region = b[2])
                  /\ SeqToSet(DescribeImages(b[1], b[2]))
                       \cap IdsAt(newIndex[c], b[2]) = {}
             ELSE \A id \in SeqToSet(regionOut[c][b]) :
                    /\ id \in IdsAt(newIndex[c], b[2])
                    /\ id \in DOMAIN newCache[c]
                    /\ newCache[c][id].OwnerID = b[1]
                    /\ newCache[c][id].Region = b[2]

\* C11 witness: a cycle in which DescribeImages failed for (o1, r1) has
\* replaced the snapshot with the image of (o2, r1).
C11_Witness ==
    \E c \in Cycles :
        /\ JustSwapped(c)
        /\ regionPc[c][<<"o1", "r1">>] = "done"
        /\ regionErr[c][<<"o1", "r1">>].listErr
        /\ regionOut[c][<<"o2", "r1">>] = <<"b">>
        /\ DOMAIN cache = {"b"}
        /\ regionIndex["r1"] = <<"b">>

\* C12: once a cycle has replaced the snapshot, every image that a region
\* goroutine listed and whose DescribeImageAttribute call failed is in the
\* served map and index, with no launch permission.
C12_AttributeFailureKeepsImage ==
    \A c \in Cycles :
        JustSwapped(c)
        => \A b \in Returned(c) :
             \A id \in regionErr[c][b].attrErr :
                /\ id \in DOMAIN cache
                /\ cache[id].launchPerms = << >>
                /\ id \in IdsAt(regionIndex, b[2])

\* The ids returned by the region goroutines of cycle c, all or for region r.
Produced(c) == UNION {SeqToSet(regionOut[c][b]) : b \in Returned(c)}
ProducedIn(c, r) ==
    UNION {SeqToSet(regionOut[c][b]) : b \in {x \in Returned(c) : x[2] = r}}

\* C13: once a cycle has replaced the snapshot, the served map holds exactly
\* the ids its region goroutines returned, each with the owner and region of
\* the goroutine that returned it, and the served index lists exactly those
\* ids once under their region: nothing of the previous snapshot is left, and
\* the snapshot is empty when no goroutine returned an image.  When every
\* upstream call succeeded, Images("r1") gives the image of o1 and the image
\* of o2 with their owner ids.
C13_SnapshotIsCycleOutput ==
    \A c \in Cycles :
        JustSwapped(c)
        => /\ DOMAIN cache = Produced(c)
           /\ \A b \in Returned(c) : \A id \in SeqToSet(regionOut[c][b]) :
                /\ cache[id].ImageId = id
                /\ cache[id].OwnerID = b[1]
                /\ cache[id].Region = b[2]
           /\ DOMAIN regionIndex = {b[2] : b \in Returned(c)}
           /\ \A r \in DOMAIN regionIndex :
                /\ SeqToSet(regionIndex[r]) = ProducedIn(c, r)
                /\ Len(regionIndex[r]) = Cardinality(ProducedIn(c, r))
           /\ NoUpstreamFailure(c)
                => LET out == View(cache, regionIndex, "r1")
                   IN  /\ Len(out) = 2
                       /\ {<<out[i].ImageId, out[i].OwnerID>> : i \in 1..2}
                            = {<<"a", "o1">>, <<"b", "o2">>}

\* C13 witness: the first cycle served both images; the next cycle, in which
\* assumeRole failed for o1, has replaced the snapshot and only the image of
\* o2 is served.
C13_Witness ==
    /\ cyOutcome[FirstCycle("run1")] = "swapped"
    /\ NoUpstreamFailure(FirstCycle("run1"))
    /\ JustSwapped(TickCycle("run1"))
    /\ ownerPc[TickCycle("run1")]["o1"] = "failed"
    /\ DOMAIN cache = {"b"}
    /\ View(cache, regionIndex, "r1") = <<Image("b", "o2", "r1")>>

\* The call updateCache c is under way, or goroutines it started still run.
InFlight(c) ==
    \/ cyPc[c] \in {"start", "select", "parked", "lock", "store"}
    \/ Unfinished(c) > 0

\* C18: the cycle of a timer expiry is started only when the first cycle of
\* the Run has completed with a swap and the warm signal has been given, and
\* the two cycles of a Run are never in flight together.
C18_TickAfterFirstCycle ==
    \A p \in Runs :
        /\ cyPc[TickCycle(p)] # "idle"
             => /\ isWarmed[p] >= 1
                /\ cyOutcome[FirstCycle(p)] = "swapped"
        /\ ~(InFlight(FirstCycle(p)) /\ InFlight(TickCycle(p)))

\* C19: once the context of a Run is cancelled, no step starts the cycle of a
\* timer expiry for that Run, no step of one of its cycles changes the served
\* snapshot, and the Run, unless it took a Stop request, returns the error of
\* the context.
C19_NoCycleAfterCancel ==
    [][\A p \in Runs :
         ctxDone[p]
         => /\ cyPc'[TickCycle(p)] = "start" => cyPc[TickCycle(p)] = "start"
            /\ (\E c \in Cycles : RunOf(c) = p /\ cyPc[c] = "store")
                 => (cache' = cache /\ regionIndex' = regionIndex)
            /\ (runPc'[p] = "returned" /\ runPc[p] # "returned")
                 => \/ runResult'[p] = "canceled"
                    \/ \E s \in Stops : quitTaker[s] = p]_vars

\* n * 0.05 rounded to the nearest integer (halves upwards), for n >= 0.
RoundedShare(n) == (n * 5 + 50) \div 100

\* C14: poolSize(max, queue, 0.05) is the 5% of queue rounded to the nearest
\* integer, raised to 1 when lower and lowered to max when higher.
C14_PoolSizeRounds ==
    (pureCall.fn = "poolSize" /\ pureCall.done)
    => pureCall.out =
         (IF RoundedShare(pureCall.queue) < 1 THEN 1
          ELSE IF RoundedShare(pureCall.queue) > pureCall.max THEN pureCall.max
          ELSE RoundedShare(pureCall.queue))

\* C17: c.ttl after New is the larger of the requested duration and
\* minCacheTTL when the TTL option is given, and 15 minutes when it is not.
C17_EffectiveTTL ==
    (pureCall.fn = "New" /\ pureCall.done)
    => IF pureCall.given
       THEN /\ pureCall.out >= 5
            /\ pureCall.out >= pureCall.ttl
            /\ pureCall.out \in {5, pureCall.ttl}
       ELSE pureCall.out = 15

\* C17 witness: New with a TTL below the floor has set c.ttl to the floor.
C17_Witness ==
    /\ pureCall.fn = "New"
    /\ pureCall.done
    /\ pureCall.given
    /\ pureCall.ttl = 1
    /\ pureCall.out = 5

\* The getImagesFromOwner calls that have started their workers.
Spawned == {r \in PoolRegions : pool[r].pc \in {"feed", "wait", "returned"}}

\* C15: in every getImagesFromOwner call the DescribeImageAttribute requests
\* in flight are never more than maxReq, and a call whose listing succeeded
\* has started at least one worker and at most maxReq workers, whatever the
\* number of images listed.
C15_PoolWithinCap ==
    /\ \A r \in PoolRegions : pool[r].busy <= poolMax
    /\ \A r \in Spawned : pool[r].workers >= 1 /\ pool[r].workers <= poolMax

\* C15 witness: with maxReq 1, one call that listed the largest number of
\* images has its one worker in a request, and the call that listed no image
\* has started one worker.
C15_Witness ==
    /\ poolMax = 1
    /\ pool["r1"].n = MaxImages
    /\ pool["r1"].busy = 1
    /\ pool["r2"].pc = "returned"
    /\ pool["r2"].n = 0
    /\ pool["r2"].workers = 1

\* C16: the DescribeImageAttribute requests in flight for the owner, over
\* all its regions, are never more than the MaxConcurrentRequests setting.
C16_OwnerWithinCap ==
    pool["r1"].busy + pool["r2"].busy <= poolMax

\* Cycle c holds the write lock of c.mu.
HoldsLock(c) == cmu # Free /\ cmu = c

\* C20: c.mu is write-locked by a cycle exactly while that cycle is between
\* c.mu.Lock() and c.mu.Unlock(), where it only assigns the two references;
\* a cycle whose goroutines are at work upstream holds no lock, and a reader
\* call under way finds c.mu free unless a cycle is at that assignment.
C20_LockOnlyForSwap ==
    /\ \A c \in Cycles : HoldsLock(c) <=> cyPc[c] = "store"
    /\ \A c \in AtWork : ~HoldsLock(c)
    /\ (rdPc = "get" /\ \A c \in Cycles : cyPc[c] # "store") => cmu = Free

\* C20 witness: an Images call has returned the image of the served snapshot,
\* and from its first step to its return the same cycle was at work upstream.
C20_Witness ==
    /\ rdPc = "done"
    /\ rdCall.op = "Images"
    /\ ~rdResult.err
    /\ rdResult.images # << >>
    /\ rdDuring # {}

\* The stage of the Filter call is given no constraint.
NoConstraint(f) ==
    CASE f.kind = "ImageID"          -> Len(f.arg) = 0
      [] f.kind = "Tags"             -> DOMAIN f.arg = {}
      [] f.kind = "OwnerID"          -> f.arg = ""
      [] f.kind = "LaunchPermission" -> f.arg = ""

\* A call of one stage of the given kind has returned.
Filtered(kind) ==
    /\ pureCall.fn = "Filter"
    /\ pureCall.done
    /\ pureCall.stage.kind = kind

\* C21: each of the four stages, given no constraint (no ids, an empty tag
\* mapping, an empty owner id, an empty account id), returns the list it was
\* given, whatever the list.
C21_PassThrough ==
    \A kind \in {"ImageID", "Tags", "OwnerID", "LaunchPermission"} :
        (Filtered(kind) /\ NoConstraint(pureCall.stage))
            => pureCall.out = pureCall.images
C21_Witness ==
    /\ Filtered("OwnerID")
    /\ NoConstraint(pureCall.stage)
    /\ Len(pureCall.images) = MaxList
    /\ pureCall.out = pureCall.images

\* The image carries a tag with the key whose value is among the values.
HasTagIn(im, key, values) ==
    \E i \in 1..Len(im.Tags) :
        /\ im.Tags[i].Key = key
        /\ \E j \in 1..Len(values) : im.Tags[i].Value = values[j]

\* C22: FilterByTags with a non-empty mapping keeps, in their order, exactly
\* the records that for every key of the mapping carry a tag with that key
\* and one of the values listed for it; a record lacking a key is dropped.
C22_TagsAndOr ==
    (Filtered("Tags") /\ ~NoConstraint(pureCall.stage))
        => /\ pureCall.out =
                SelectSeq(pureCall.images,
                          LAMBDA im : \A key \in DOMAIN pureCall.stage.arg :
                                         HasTagIn(im, key, pureCall.stage.arg[key]))
           /\ \A i \in 1..Len(pureCall.out) :
                  \A key \in DOMAIN pureCall.stage.arg :
                      \E t \in 1..Len(pureCall.out[i].Tags) :
                          pureCall.out[i].Tags[t].Key = key
\* Two keys are asked for; the image having both is kept, the image having
\* only one of them is dropped.
C22_Witness ==
    /\ Filtered("Tags")
    /\ Cardinality(DOMAIN pureCall.stage.arg) = 2
    /\ Len(pureCall.images) = 2
    /\ pureCall.images[1].ImageId = "b"
    /\ pureCall.images[2].ImageId = "a"
    /\ Len(pureCall.out) = 1
    /\ pureCall.out[1].ImageId = "a"

\* C23: FilterByImageID with a non-empty id list returns the input records
\* whose image id is in the list, in their order, and nothing else.
C23_ByImageIDKeepsListed ==
    (Filtered("ImageID") /\ ~NoConstraint(pureCall.stage))
        => pureCall.out =
             SelectSeq(pureCall.images,
                       LAMBDA im : im.ImageId \in SeqToSet(pureCall.stage.arg))

\* C24: FilterByLaunchPermission with a non-empty account id returns, in
\* their order and once each, exactly the input records whose launchPerms
\* contain the id; no record with empty launchPerms is returned.
C24_ByLaunchPermission ==
    (Filtered("LaunchPermission") /\ ~NoConstraint(pureCall.stage))
        => /\ pureCall.out =
                SelectSeq(pureCall.images,
                          LAMBDA im : \E i \in 1..Len(im.launchPerms) :
                                         im.launchPerms[i] = pureCall.stage.arg)
           /\ \A i \in 1..Len(pureCall.out) : pureCall.out[i].launchPerms # << >>
\* An image whose launchPerms name the account twice is kept once, and an
\* image without launchPerms is dropped.
C24_Witness ==
    /\ Filtered("LaunchPermission")
    /\ pureCall.stage.arg = "o2"
    /\ Len(pureCall.images) = 2
    /\ pureCall.images[1].ImageId = "c"
    /\ pureCall.images[2].ImageId = "b"
    /\ Len(pureCall.out) = 1
    /\ pureCall.out[1].ImageId = "c"

\* C25: for stages A, B, C and every list, the pipeline [C] applied to what
\* the pipeline [A, B] returns gives what the pipeline [A, B, C] returns.
C25_PipelineComposes ==
    (pureCall.fn = "Apply" /\ pureCall.done)
        => pureCall.chained = pureCall.out
\* Three stages of different kinds, each dropping a record the others keep.
C25_Witness ==
    /\ pureCall.fn = "Apply"
    /\ pureCall.done
    /\ pureCall.A.kind = "OwnerID"
    /\ pureCall.B.kind = "LaunchPermission"
    /\ pureCall.C.kind = "Tags"
    /\ ~NoConstraint(pureCall.A)
    /\ ~NoConstraint(pureCall.B)
    /\ ~NoConstraint(pureCall.C)
    /\ Len(pureCall.images) = MaxList
    /\ Len(pureCall.out) = 1
    /\ pureCall.chained = pureCall.out

\* The seven state names from the lowest weight to the highest.
StateOrder ==
    <<"deregistered", "development", "pre-release", "unavailable", "exception",
      "deprecated", "available">>

\* The place of the image's state in StateOrder, case ignored; 0 when the
\* status tag is missing or is none of the seven names.
Rank(im) ==
    IF \E k \in 1..Len(StateOrder) : StateOrder[k] = ToLower(Tag(im, StateTag))
    THEN CHOOSE k \in 1..Len(StateOrder) : StateOrder[k] = ToLower(Tag(im, StateTag))
    ELSE 0

\* The creation date parses and lies at least 0 s and less than 10^10 s
\* after the epoch.
DateInRange(im) ==
    /\ ~ParseDate(im.CreationDate).err
    /\ ParseDate(im.CreationDate).unix >= 0
    /\ ParseDate(im.CreationDate).unix < weightStep

\* A call of SortByState has returned.
Sorted == pureCall.fn = "SortByState" /\ pureCall.done

\* C26: SortByState rearranges the list so that no record of a known state
\* stands behind a record of a known state of lower weight, whatever the two
\* creation dates within [0, 10^10) seconds are, and so that among records of
\* one state no record stands behind one with an earlier creation date.
C26_StateThenRecency ==
    Sorted =>
        /\ Len(pureCall.out) = Len(pureCall.images)
        /\ \A i \in 1..Len(pureCall.images) :
               Count(pureCall.out, pureCall.images[i])
                   = Count(pureCall.images, pureCall.images[i])
        /\ \A p, q \in 1..Len(pureCall.out) :
               (/\ p < q
                /\ Rank(pureCall.out[p]) > 0
                /\ Rank(pureCall.out[q]) > 0
                /\ DateInRange(pureCall.out[p])
                /\ DateInRange(pureCall.out[q]))
                   => Rank(pureCall.out[p]) >= Rank(pureCall.out[q])
        /\ \A p, q \in 1..Len(pureCall.out) :
               (/\ p < q
                /\ ToLower(Tag(pureCall.out[p], StateTag))
                       = ToLower(Tag(pureCall.out[q], StateTag))
                /\ ~ParseDate(pureCall.out[p].CreationDate).err
                /\ ~ParseDate(pureCall.out[q].CreationDate).err)
                   => ParseDate(pureCall.out[p].CreationDate).unix
                          >= ParseDate(pureCall.out[q].CreationDate).unix
\* An older "available" image given behind a newer "deprecated" one comes
\* out in front of it.
C26_Witness ==
    /\ Sorted
    /\ Len(pureCall.images) = 2
    /\ pureCall.images[1] = SortImage("deprecated", "2207-09-01T13:20:00.000Z")
    /\ pureCall.images[2] = SortImage("available", "1970-01-01T00:00:00.000Z")
    /\ pureCall.out = <<pureCall.images[2], pureCall.images[1]>>

\* The records of s whose score is n, in their order.
WithScore(s, n) == SelectSeq(s, LAMBDA im : cdate(im) + state(im) = n)

\* C27: the sort is stable: the records of any one score stand in the output
\* in the order they had in the input.
C27_SortStable ==
    Sorted =>
        \A i \in 1..Len(pureCall.images) :
            WithScore(pureCall.out,
                      cdate(pureCall.images[i]) + state(pureCall.images[i]))
                = WithScore(pureCall.images,
                            cdate(pureCall.images[i]) + state(pureCall.images[i]))

\* C28: the less function gives the state weight 0 to every record whose
\* status tag is missing or is none of the seven state names in any case,
\* and the date value 0 to every record whose creation date does not parse;
\* such records are ranked by what remains of their score.
C28_UnknownCountsZero ==
    Sorted =>
        /\ \A i \in 1..Len(pureCall.images) :
               /\ Rank(pureCall.images[i]) = 0 => pureCall.istate[i] = 0
               /\ ParseDate(pureCall.images[i].CreationDate).err
                      => pureCall.icdate[i] = 0
        /\ \A p, q \in 1..Len(pureCall.out) :
               (/\ p < q
                /\ Rank(pureCall.out[p]) = 0
                /\ Rank(pureCall.out[q]) = 0
                /\ ~ParseDate(pureCall.out[p].CreationDate).err
                /\ ~ParseDate(pureCall.out[q].CreationDate).err)
                   => ParseDate(pureCall.out[p].CreationDate).unix
                          >= ParseDate(pureCall.out[q].CreationDate).unix
        /\ \A p, q \in 1..Len(pureCall.out) :
               (/\ p < q
                /\ ParseDate(pureCall.out[p].CreationDate).err
                /\ ParseDate(pureCall.out[q].CreationDate).err)
                   => Rank(pureCall.out[p]) >= Rank(pureCall.out[q])
\* An image with an unknown state and an unparsable date, given first, comes
\* out behind an image without status tag created after the epoch.
C28_Witness ==
    /\ Sorted
    /\ Len(pureCall.images) = 2
    /\ pureCall.images[1] = SortImage("foo", "2017-10-29")
    /\ pureCall.images[2] = SortImage("", "2049-03-22T04:26:40.000Z")
    /\ pureCall.istate = <<0, 0>>
    /\ pureCall.icdate[1] = 0
    /\ pureCall.out = <<pureCall.images[2], pureCall.images[1]>>

\* A call of Decode has returned.
Decoded == pureCall.fn = "Decode" /\ pureCall.done

\* The string is the key, a colon and the value, and the key has no colon.
SplitsInto(s, key, value) ==
    /\ Chars(s) = Chars(key) \o <<":">> \o Chars(value)
    /\ \A i \in 1..Len(Chars(key)) : Chars(key)[i] # ":"

\* C29: Decode fails exactly when some value of the key "tag" has no colon;
\* otherwise the tags decoded are exactly the pairs (key, value) such that
\* some "tag" value is the key, a colon and the value, and the key has no
\* colon: the value is split at its first colon only.
C29_TagSplitsAtFirstColon ==
    Decoded =>
        /\ pureCall.p.err <=>
               \E n \in 1..Len(pureCall.q.tag) :
                   \A i \in 1..Len(Chars(pureCall.q.tag[n])) :
                       Chars(pureCall.q.tag[n])[i] # ":"
        /\ ~pureCall.p.err =>
               /\ \A n \in 1..Len(pureCall.q.tag) :
                      \E key \in DOMAIN pureCall.p.tags :
                          \E v \in 1..Len(pureCall.p.tags[key]) :
                              SplitsInto(pureCall.q.tag[n], key, pureCall.p.tags[key][v])
               /\ \A key \in DOMAIN pureCall.p.tags :
                      \A v \in 1..Len(pureCall.p.tags[key]) :
                          \E n \in 1..Len(pureCall.q.tag) :
                              SplitsInto(pureCall.q.tag[n], key, pureCall.p.tags[key][v])
\* A value with two colons is decoded next to a value with one colon and the
\* same key: the key gets both values, the first with its colon.
C29_Witness ==
    /\ Decoded
    /\ pureCall.q.tag = <<"k:v:w", "k:w">>
    /\ ~pureCall.p.err
    /\ DOMAIN pureCall.p.tags = {"k"}
    /\ pureCall.p.tags["k"] = <<"v:w", "w">>

\* A call of ServeHTTP whose query decodes has returned.
Served200or400 ==
    /\ pureCall.fn = "ServeHTTP"
    /\ pureCall.done
    /\ ~Decode(pureCall.q).err

\* What the region holds that passes the filters of the query.
Matching(q, region) ==
    SelectSeq(View(QueryCache, QueryIndex, region),
              LAMBDA im :
                  /\ q.ami = << >> \/ im.ImageId \in SeqToSet(q.ami)
                  /\ q.account_id = << >> \/ q.account_id[1] \in SeqToSet(im.launchPerms)
                  /\ \A key \in DOMAIN Decode(q).tags :
                         HasTagIn(im, key, Decode(q).tags[key]))

\* The regions the answer has to cover: those named, all when none is named.
Asked(q) == IF q.region = << >> THEN QueryRegions ELSE SeqToSet(q.region)

\* C30: a query naming no region is answered over every region of the
\* cache; the answer holds exactly the matching records of each region asked
\* and is ranked as one list, no record behind one of lower score; a query
\* naming a region the cache does not have gets status 400 and no records.
C30_RegionsOfQuery ==
    Served200or400 =>
        IF Asked(pureCall.q) \subseteq QueryRegions
        THEN /\ pureCall.status = 200
             /\ \A id \in DOMAIN QueryCache :
                    Count(pureCall.images, QueryCache[id])
                        = IF \E r \in Asked(pureCall.q) :
                                 \E i \in 1..Len(Matching(pureCall.q, r)) :
                                     Matching(pureCall.q, r)[i] = QueryCache[id]
                          THEN 1 ELSE 0
             /\ \A i \in 1..Len(pureCall.images) :
                    \E id \in DOMAIN QueryCache : pureCall.images[i] = QueryCache[id]
             /\ \A i, j \in 1..Len(pureCall.images) :
                    i < j => ~less(pureCall.images[j], pureCall.images[i])
        ELSE /\ pureCall.status = 400
             /\ pureCall.images = << >>
\* No region is named: the answer interleaves the records of both regions.
C30_Witness ==
    /\ Served200or400
    /\ pureCall.q.region = << >>
    /\ pureCall.q.tag = << >>
    /\ pureCall.q.ami = << >>
    /\ pureCall.q.account_id = << >>
    /\ pureCall.status = 200
    /\ Len(pureCall.images) = 4
    /\ pureCall.images[1].Region = "r2"
    /\ pureCall.images[2].Region = "r1"
    /\ pureCall.images[3].Region = "r1"
    /\ pureCall.images[4].Region = "r2"

\* C32: at no moment are two Run calls between their increment and their
\* deferred decrement, and c.running never counts more than one Run.
C32_OneRunLoop ==
    /\ Cardinality({p \in Runs : runPc[p] \in ActivePcs}) <= 1
    /\ running <= 1

\* Run p has returned from its loop (stopped or cancelled).
LoopLeft(p) == runPc[p] = "returned" /\ runResult[p] \in {"stopped", "canceled"}

\* C34: once Run has returned from its loop, no step replaces the served
\* snapshot and no step closes isWarmed or the warmed channel of that Run.
C34_QuietAfterReturn ==
    [][\A p \in Runs :
         (LoopLeft(p) /\ \A q \in Runs \ {p} : runPc[q] = "idle")
         => /\ cache' = cache
            /\ regionIndex' = regionIndex
            /\ warmed'[p] = warmed[p]
            /\ isWarmed'[p] = isWarmed[p]]_vars

\* C35: no two refresh cycles of the cache are in flight together, and a Run
\* that passes its isRunning check after an earlier Run has returned finds no
\* cycle of the earlier Run still in flight.
C35_OneCycleInFlight ==
    /\ [](Cardinality({c \in Cycles : InFlight(c)}) <= 1)
    /\ [][\A p, q \in Runs :
            (/\ LoopLeft(q)
             /\ runPc[p] = "idle"
             /\ runPc'[p] = "entered")
            => \A c \in Cycles : RunOf(c) = q => ~InFlight(c)]_vars

\* C39: c.running is never negative and always counts the Run calls between
\* their increment and their deferred decrement, so it is 0 whenever every
\* Run call made has returned, whether stopped, cancelled or rejected; a Run
\* whose check is made then is not rejected.
C39_CounterBalanced ==
    /\ [](running >= 0)
    /\ [](running = Cardinality({p \in Runs : runPc[p] \in ActivePcs}))
    /\ []((\A p \in Runs : runPc[p] \in {"idle", "returned"}) => running = 0)
    /\ [][\A p \in Runs :
            (/\ runPc[p] = "idle"
             /\ runPc'[p] # "idle"
             /\ \A q \in Runs \ {p} : runPc[q] \in {"idle", "returned"})
            => runPc'[p] = "entered"]_vars
\* One Run has returned errCacheStopped and the Run called after it is in
\* the loop.
C39_Witness ==
    /\ runPc["run1"] = "returned"
    /\ runResult["run1"] = "stopped"
    /\ runPc["run2"] \in {"loop", "parked"}
    /\ running = 1

\* C33: every Stop call that has been made returns in the end, also when the
\* context of Run is cancelled meanwhile or a second Stop call is under way;
\* a Stop call made with nothing running returns at once and changes nothing
\* of the cache.
C33_StopReturns ==
    /\ \A s \in Stops :
         (stopPc[s] # "idle") ~> (stopPc[s] \in {"noop", "returned"})
    /\ [][\A s \in Stops :
            (stopPc[s] = "idle" /\ stopPc'[s] # "idle" /\ ~isRunning)
            => /\ stopPc'[s] = "noop"
               /\ UNCHANGED <<cacheVars, runVars, cycleVars, quit>>]_vars

\* C31: the http server listens only once the warmed channel of Run is
\* closed, and every query it answers is answered after the first refresh
\* cycle has completed (replaced the snapshot).
C31_ServeAfterWarm ==
    /\ server.pc = "listening" => warmed["run1"] > 0
    /\ ~server.cold

\* out can be had from images by dropping records.
RECURSIVE SubList(_, _)
SubList(out, images) ==
    IF out = << >> THEN TRUE
    ELSE IF images = << >> THEN FALSE
    ELSE IF Head(out) = Head(images)
         THEN SubList(Tail(out), Tail(images))
         ELSE SubList(out, Tail(images))

\* C36: what a filter stage or a pipeline returns is a sub-list of the list it
\* was given: records of the input, in the order of the input, none more
\* often than in the input.
C36_OutputIsSubList ==
    (pureCall.fn \in {"Filter", "Apply"} /\ pureCall.done)
    => SubList(pureCall.out, pureCall.images)

\* C37: every record Images(r) returns has region r, and no image id occurs
\* twice in what it returns, whatever the branches of the cycle listed.
C37_OneRecordPerId ==
    (pureCall.fn = "updateCache" /\ pureCall.pc = "read")
    => /\ \A i \in 1..Len(pureCall.out) :
            pureCall.out[i].Region = pureCall.region
       /\ \A i, j \in 1..Len(pureCall.out) :
            pureCall.out[i].ImageId = pureCall.out[j].ImageId => i = j

\* C38: a getImagesFromOwner call returns in the end; every image listed is
\* received from workerCh once, by one worker; when the call returns every
\* image was sent, every worker has exited, and index and images agree entry
\* by entry, as they do whenever no worker is between its two appends.
C38_EnrichmentPool ==
    /\ (pureCall.fn = "getImagesFromOwner") ~> (pureCall.pc = "returned")
    /\ [](pureCall.fn = "getImagesFromOwner" =>
            /\ \A i \in 1..pureCall.n :
                 pureCall.taken[i] = IF i <= pureCall.sent THEN 1 ELSE 0
            /\ \A v, w \in 1..pureCall.workers :
                 (pureCall.held[v] # 0 /\ pureCall.held[v] = pureCall.held[w])
                 => v = w
            /\ (\A w \in 1..pureCall.workers : pureCall.wpc[w] # "image")
                 => pureCall.indexRest = << >> /\ pureCall.imagesRest = << >>
            /\ pureCall.pc = "returned" =>
                 /\ pureCall.sent = pureCall.n
                 /\ \A w \in 1..pureCall.workers : pureCall.wpc[w] = "exit"
                 /\ pureCall.wg = 0
                 /\ pureCall.out = "equal")
\* A call with MaxImages images and two workers has returned, some images
\* stored and some dropped for a failed DescribeImageAttribute.
C38_Witness ==
    /\ pureCall.fn = "getImagesFromOwner"
    /\ pureCall.pc = "returned"
    /\ pureCall.n = MaxImages
    /\ pureCall.workers = 2
    /\ pureCall.stored
    /\ pureCall.dropped

====
